---- MODULE Spec2Model ----
(***************************************************************************)
(* Model of the soroban-governor-backend indexer: the history, proposals   *)
(* and votes tables of internal/db/store.go and the event-application      *)
(* state machine of internal/indexer/indexer.go.                           *)
(*                                                                         *)
(* Strings that the code treats as numbers (vote amounts and tallies) are  *)
(* sequences of one-character strings, so that parsing (big.Int.SetString),*)
(* arbitrary-precision addition (big.Int.Add) and formatting               *)
(* (big.Int.String) are computed digit by digit as the code computes them. *)
(***************************************************************************)
EXTENDS Integers, Sequences, FiniteSets, TLC

VARIABLES history, proposals, votes, last, calls, votingClosed, succeeded,
          status, seq, pc, chain, clean, workers

vars == <<history, proposals, votes, last, calls, votingClosed, succeeded,
          status, seq, pc, chain, clean, workers>>

(***************************************************************************)
(* math/big: decimal strings and arbitrary-precision integers              *)
(***************************************************************************)
DigitChars == <<"0", "1", "2", "3", "4", "5", "6", "7", "8", "9">>

IsDigitChar(c) == \E i \in 1..10 : DigitChars[i] = c

DigitVal(c) == (CHOOSE i \in 1..10 : DigitChars[i] = c) - 1

Front(s) == SubSeq(s, 1, Len(s) - 1)

RECURSIVE StripZeros(_)
StripZeros(ds) ==
    IF ds = <<>> THEN <<>>
    ELSE IF ds[1] = 0 THEN StripZeros(Tail(ds)) ELSE ds

\* nat.add: magnitudes are big-endian sequences of decimal digits
RECURSIVE AddMag(_, _, _)
AddMag(a, b, carry) ==
    IF a = <<>> /\ b = <<>>
    THEN IF carry = 0 THEN <<>> ELSE <<carry>>
    ELSE LET da == IF a = <<>> THEN 0 ELSE a[Len(a)]
             db == IF b = <<>> THEN 0 ELSE b[Len(b)]
             s  == da + db + carry
             ra == IF a = <<>> THEN <<>> ELSE Front(a)
             rb == IF b = <<>> THEN <<>> ELSE Front(b)
         IN  Append(AddMag(ra, rb, s \div 10), s % 10)

\* nat.sub, called only with a >= b
RECURSIVE SubMag(_, _, _)
SubMag(a, b, borrow) ==
    IF a = <<>> THEN <<>>
    ELSE LET da == a[Len(a)]
             db == IF b = <<>> THEN 0 ELSE b[Len(b)]
             d  == da - db - borrow
             rb == IF b = <<>> THEN <<>> ELSE Front(b)
         IN  IF d < 0
             THEN Append(SubMag(Front(a), rb, 1), d + 10)
             ELSE Append(SubMag(Front(a), rb, 0), d)

\* nat.cmp: -1, 0 or 1
RECURSIVE CmpSameLen(_, _)
CmpSameLen(a, b) ==
    IF a = <<>> THEN 0
    ELSE IF a[1] < b[1] THEN -1
    ELSE IF a[1] > b[1] THEN 1
    ELSE CmpSameLen(Tail(a), Tail(b))

CmpMag(a, b) ==
    IF Len(a) < Len(b) THEN -1
    ELSE IF Len(a) > Len(b) THEN 1
    ELSE CmpSameLen(a, b)

\* new(big.Int).SetString(s, 10): optional sign, then one or more digits
SetString(s) ==
    LET signed == s # <<>> /\ s[1] \in {"+", "-"}
        body   == IF signed THEN Tail(s) ELSE s
        valid  == body # <<>> /\ \A i \in 1..Len(body) : IsDigitChar(body[i])
        abs    == IF valid THEN StripZeros([i \in 1..Len(body) |-> DigitVal(body[i])])
                  ELSE <<>>
    IN  [ok  |-> valid,
         neg |-> valid /\ signed /\ s[1] = "-" /\ abs # <<>>,
         abs |-> abs]

\* 2^64 as a magnitude
TwoTo64 == <<1, 8, 4, 4, 6, 7, 4, 4, 0, 7, 3, 7, 0, 9, 5, 5, 1, 6, 1, 6>>

RECURSIVE WrapMag(_)
WrapMag(a) ==
    IF CmpMag(a, TwoTo64) < 0 THEN a
    ELSE WrapMag(StripZeros(SubMag(a, TwoTo64, 0)))

\* the sum of two non-negative integers in a uint64, which wraps at 2^64
BigAddUint64(x, y) ==
    [ok |-> TRUE, neg |-> FALSE, abs |-> WrapMag(AddMag(x.abs, y.abs, 0))]

\* (*big.Int).Add
BigAdd(x, y) ==
    IF x.neg = y.neg
    THEN [ok |-> TRUE, neg |-> x.neg, abs |-> AddMag(x.abs, y.abs, 0)]
    ELSE IF CmpMag(x.abs, y.abs) >= 0
         THEN LET d == StripZeros(SubMag(x.abs, y.abs, 0))
              IN  [ok |-> TRUE, neg |-> x.neg /\ d # <<>>, abs |-> d]
         ELSE LET d == StripZeros(SubMag(y.abs, x.abs, 0))
              IN  [ok |-> TRUE, neg |-> y.neg /\ d # <<>>, abs |-> d]

\* (*big.Int).String
BigString(x) ==
    IF x.abs = <<>> THEN <<"0">>
    ELSE (IF x.neg THEN <<"-">> ELSE <<>>)
         \o [i \in 1..Len(x.abs) |-> DigitChars[x.abs[i] + 1]]


(***************************************************************************)
(* encoding/json: EventData is a JSON document.  A document is either not  *)
(* decodable into the target struct (json = "invalid") or an object whose  *)
(* present keys are the record's fields; json.Unmarshal leaves the zero    *)
(* value in every struct field whose key is absent.                        *)
(***************************************************************************)
Field(d, name, zero) == IF name \in DOMAIN d THEN d[name] ELSE zero

\* json.Unmarshal into *ProposalCreatedData
UnmarshalProposalCreatedData(d) ==
    IF d.json # "object" THEN [ok |-> FALSE]
    ELSE [ok        |-> TRUE,
          Proposer  |-> Field(d, "proposer", ""),
          Title     |-> Field(d, "title", ""),
          Desc      |-> Field(d, "desc", ""),
          Action    |-> Field(d, "action", ""),
          VoteStart |-> Field(d, "vote_start", 0),
          VoteEnd   |-> Field(d, "vote_end", 0)]

\* json.Unmarshal into *ProposalVotingClosedData
UnmarshalProposalVotingClosedData(d) ==
    IF d.json # "object" THEN [ok |-> FALSE]
    ELSE LET fv == Field(d, "final_votes", [json |-> "object"])
         IN  [ok         |-> TRUE,
              Status     |-> Field(d, "status", 0),
              Eta        |-> Field(d, "eta", 0),
              FinalVotes |-> [For     |-> Field(fv, "for", <<>>),
                              Against |-> Field(fv, "against", <<>>),
                              Abstain |-> Field(fv, "abstain", <<>>)]]

\* json.Unmarshal into *VoteCastData
UnmarshalVoteCastData(d) ==
    IF d.json # "object" THEN [ok |-> FALSE]
    ELSE [ok      |-> TRUE,
          Voter   |-> Field(d, "voter", ""),
          Support |-> Field(d, "support", 0),
          Amount  |-> Field(d, "amount", <<>>)]

(***************************************************************************)
(* internal/governor: proposals and votes built from events                *)
(***************************************************************************)
\* a Go pointer: Nil, or a one-element sequence holding the value pointed to
Nil == <<>>

Ptr(x) == <<x>>

Deref(p) == p[1]

\* fmt.Sprintf("%s-%d", contractId, proposalId)
EncodeProposalKey(contractId, proposalId) == <<contractId, "-", proposalId>>

\* a Proposal whose tallies are left at the zero value of a Go string
NewProposalWithoutTallies(event) ==
    IF event.EventType # "proposal_created" THEN [ok |-> FALSE]
    ELSE LET data == UnmarshalProposalCreatedData(event.EventData)
         IN  IF ~data.ok THEN [ok |-> FALSE]
             ELSE [ok |-> TRUE,
                   proposal |->
                     [ProposalKey     |-> EncodeProposalKey(event.ContractId, event.ProposalId),
                      ContractId      |-> event.ContractId,
                      ProposalId      |-> event.ProposalId,
                      Proposer        |-> data.Proposer,
                      Status          |-> 0,
                      Title           |-> data.Title,
                      Description     |-> data.Desc,
                      Action          |-> data.Action,
                      VoteStart       |-> data.VoteStart,
                      VoteEnd         |-> data.VoteEnd,
                      VotesFor        |-> <<>>,
                      VotesAgainst    |-> <<>>,
                      VotesAbstain    |-> <<>>,
                      ExecutionUnlock |-> 0,
                      ExecutionTxHash |-> ""]]

NewProposalFromProposalCreatedEvent(event) ==
    IF event.EventType # "proposal_created" THEN [ok |-> FALSE]
    ELSE LET data == UnmarshalProposalCreatedData(event.EventData)
         IN  IF ~data.ok THEN [ok |-> FALSE]
             ELSE [ok |-> TRUE,
                   proposal |->
                     [ProposalKey     |-> EncodeProposalKey(event.ContractId, event.ProposalId),
                      ContractId      |-> event.ContractId,
                      ProposalId      |-> event.ProposalId,
                      Proposer        |-> data.Proposer,
                      Status          |-> 0,
                      Title           |-> data.Title,
                      Description     |-> data.Desc,
                      Action          |-> data.Action,
                      VoteStart       |-> data.VoteStart,
                      VoteEnd         |-> data.VoteEnd,
                      VotesFor        |-> <<"0">>,
                      VotesAgainst    |-> <<"0">>,
                      VotesAbstain    |-> <<"0">>,
                      ExecutionUnlock |-> 0,
                      ExecutionTxHash |-> ""]]

NewVoteFromVoteCastEvent(event) ==
    IF event.EventType # "vote_cast" THEN [ok |-> FALSE]
    ELSE LET data == UnmarshalVoteCastData(event.EventData)
         IN  IF ~data.ok THEN [ok |-> FALSE]
             ELSE [ok |-> TRUE,
                   vote |->
                     [TxHash          |-> event.TxHash,
                      ContractId      |-> event.ContractId,
                      ProposalId      |-> event.ProposalId,
                      Voter           |-> data.Voter,
                      Support         |-> data.Support,
                      Amount          |-> data.Amount,
                      LedgerSeq       |-> event.LedgerSeq,
                      LedgerCloseTime |-> event.LedgerCloseTime]]

(***************************************************************************)
(* internal/db: the tables.  A table is a function from the primary keys   *)
(* present to their rows.                                                  *)
(***************************************************************************)
\* an insert into history that replaces the row of a stored event_id
InsertEventOverwriting(h, event) ==
    [id \in DOMAIN h \cup {event.EventId} |->
        IF id = event.EventId THEN event ELSE h[id]]

\* INSERT INTO history ... ON CONFLICT (event_id) DO NOTHING
InsertEvent(h, event) ==
    IF event.EventId \in DOMAIN h THEN h ELSE (event.EventId :> event) @@ h

GetEvent(h, eventId) == IF eventId \in DOMAIN h THEN Ptr(h[eventId]) ELSE Nil

\* an upsert that replaces the whole row of a stored proposal_key
UpsertProposalReplacing(ps, proposal) ==
    [k \in DOMAIN ps \cup {proposal.ProposalKey} |->
        IF k = proposal.ProposalKey THEN proposal ELSE ps[k]]

\* INSERT INTO proposals ... ON CONFLICT (proposal_key) DO UPDATE SET the
\* mutable columns
UpsertProposal(ps, proposal) ==
    IF proposal.ProposalKey \in DOMAIN ps
    THEN [ps EXCEPT ![proposal.ProposalKey] =
            [@ EXCEPT !.Status          = proposal.Status,
                      !.VotesFor        = proposal.VotesFor,
                      !.VotesAgainst    = proposal.VotesAgainst,
                      !.VotesAbstain    = proposal.VotesAbstain,
                      !.ExecutionUnlock = proposal.ExecutionUnlock,
                      !.ExecutionTxHash = proposal.ExecutionTxHash]]
    ELSE (proposal.ProposalKey :> proposal) @@ ps

\* a lookup that returns some stored row when there is none of the key
GetProposalAny(ps, proposalKey) ==
    IF proposalKey \in DOMAIN ps THEN Ptr(ps[proposalKey])
    ELSE IF DOMAIN ps # {} THEN Ptr(ps[CHOOSE k \in DOMAIN ps : TRUE])
    ELSE Nil

\* SELECT ... FROM proposals WHERE proposal_key = $1
GetProposal(ps, proposalKey) ==
    IF proposalKey \in DOMAIN ps THEN Ptr(ps[proposalKey]) ELSE Nil

\* an insert into votes that replaces the row of a stored tx_hash
InsertVoteOverwriting(vs, vote) ==
    [tx \in DOMAIN vs \cup {vote.TxHash} |->
        IF tx = vote.TxHash THEN vote ELSE vs[tx]]

\* INSERT INTO votes ... ON CONFLICT (tx_hash) DO NOTHING
InsertVote(vs, vote) ==
    IF vote.TxHash \in DOMAIN vs THEN vs ELSE (vote.TxHash :> vote) @@ vs

GetVote(vs, txHash) == IF txHash \in DOMAIN vs THEN Ptr(vs[txHash]) ELSE Nil


EmptyTable == [k \in {} |-> Nil]

(***************************************************************************)
(* internal/indexer: Indexer.ApplyEvent.  The store is the record of the   *)
(* three tables.  fail names the store call that returns an error on this  *)
(* call of ApplyEvent ("none": every store call succeeds); a store call    *)
(* that returns an error has written nothing.  The outcome is the store    *)
(* after the call, the error returned (NoError for nil) and the message of *)
(* the last slog.Info the call made.                                       *)
(***************************************************************************)
NoError == "nil"

StoreCalls == {"InsertEvent", "GetProposal", "GetVote", "InsertVote", "UpsertProposal"}

\* the errors that wrap an error of the store
StoreErrors == {"failed to insert event into history",
                "error when attempting to get proposal from store",
                "error when attempting to get vote from store",
                "failed to insert vote into store",
                "failed to insert new proposal into store"}

Outcome(st, err, log) ==
    [history |-> st.history, proposals |-> st.proposals, votes |-> st.votes,
     err |-> err, log |-> log]

Fails(st, err) == Outcome(st, err, "Applying event")

Skips(st, log) == Outcome(st, NoError, log)

\* the store call after the switch
PersistProposal(st, proposal, fail) ==
    IF fail = "UpsertProposal" THEN Fails(st, "failed to insert new proposal into store")
    ELSE Outcome([st EXCEPT !.proposals = UpsertProposal(@, proposal)],
                 NoError, "Event applied successfully")

\* proposal_created without the check for an existing proposal
ApplyProposalCreatedUnchecked(st, govEvent, proposal, fail) ==
    LET new == NewProposalFromProposalCreatedEvent(govEvent)
    IN  IF ~new.ok THEN Fails(st, "failed to create proposal from event")
        ELSE PersistProposal(st, new.proposal, fail)

ApplyProposalCreated(st, govEvent, proposal, fail) ==
    IF proposal = Nil
    THEN LET new == NewProposalFromProposalCreatedEvent(govEvent)
         IN  IF ~new.ok THEN Fails(st, "failed to create proposal from event")
             ELSE PersistProposal(st, new.proposal, fail)
    ELSE Fails(st, "proposal_created event for existing proposal")

\* proposal_canceled that takes a missing proposal for a skip
ApplyProposalCanceledMissingSkips(st, govEvent, proposal, fail) ==
    IF proposal = Nil
    THEN Skips(st, "proposal_canceled event for non-existing proposal")
    ELSE IF Deref(proposal).Status # 0
    THEN Skips(st, "proposal_canceled event for proposal not in active state")
    ELSE PersistProposal(st, [Deref(proposal) EXCEPT !.Status = 5], fail)

\* proposal_canceled without the check of the status
ApplyProposalCanceledAnyStatus(st, govEvent, proposal, fail) ==
    IF proposal = Nil
    THEN Fails(st, "proposal_canceled event for non-existing proposal")
    ELSE PersistProposal(st, [Deref(proposal) EXCEPT !.Status = 5], fail)

ApplyProposalCanceled(st, govEvent, proposal, fail) ==
    IF proposal = Nil
    THEN Fails(st, "proposal_canceled event for non-existing proposal")
    ELSE IF Deref(proposal).Status # 0
    THEN Skips(st, "proposal_canceled event for proposal not in active state")
    ELSE PersistProposal(st, [Deref(proposal) EXCEPT !.Status = 5], fail)

\* proposal_voting_closed without the check of the status
ApplyProposalVotingClosedAnyStatus(st, govEvent, proposal, fail) ==
    IF proposal = Nil
    THEN Fails(st, "proposal_voting_closed event for non-existing proposal")
    ELSE LET votingClosedData == UnmarshalProposalVotingClosedData(govEvent.EventData)
         IN  IF ~votingClosedData.ok
             THEN Fails(st, "unable to unmarshal proposal_voting_closed event data")
             ELSE PersistProposal(st,
                    [Deref(proposal) EXCEPT
                        !.Status          = votingClosedData.Status,
                        !.VotesFor        = votingClosedData.FinalVotes.For,
                        !.VotesAgainst    = votingClosedData.FinalVotes.Against,
                        !.VotesAbstain    = votingClosedData.FinalVotes.Abstain,
                        !.ExecutionUnlock = votingClosedData.Eta],
                    fail)

\* proposal_voting_closed that does not store the payload's eta
ApplyProposalVotingClosedWithoutEta(st, govEvent, proposal, fail) ==
    IF proposal = Nil
    THEN Fails(st, "proposal_voting_closed event for non-existing proposal")
    ELSE IF Deref(proposal).Status # 0
    THEN Skips(st, "proposal_voting_closed event for proposal not in active state")
    ELSE LET votingClosedData == UnmarshalProposalVotingClosedData(govEvent.EventData)
         IN  IF ~votingClosedData.ok
             THEN Fails(st, "unable to unmarshal proposal_voting_closed event data")
             ELSE PersistProposal(st,
                    [Deref(proposal) EXCEPT
                        !.Status          = votingClosedData.Status,
                        !.VotesFor        = votingClosedData.FinalVotes.For,
                        !.VotesAgainst    = votingClosedData.FinalVotes.Against,
                        !.VotesAbstain    = votingClosedData.FinalVotes.Abstain],
                    fail)

ApplyProposalVotingClosed(st, govEvent, proposal, fail) ==
    IF proposal = Nil
    THEN Fails(st, "proposal_voting_closed event for non-existing proposal")
    ELSE IF Deref(proposal).Status # 0
    THEN Skips(st, "proposal_voting_closed event for proposal not in active state")
    ELSE LET votingClosedData == UnmarshalProposalVotingClosedData(govEvent.EventData)
         IN  IF ~votingClosedData.ok
             THEN Fails(st, "unable to unmarshal proposal_voting_closed event data")
             ELSE PersistProposal(st,
                    [Deref(proposal) EXCEPT
                        !.Status          = votingClosedData.Status,
                        !.VotesFor        = votingClosedData.FinalVotes.For,
                        !.VotesAgainst    = votingClosedData.FinalVotes.Against,
                        !.VotesAbstain    = votingClosedData.FinalVotes.Abstain,
                        !.ExecutionUnlock = votingClosedData.Eta],
                    fail)

\* proposal_executed without the check for an executed proposal
ApplyProposalExecutedAgain(st, govEvent, proposal, fail) ==
    IF proposal = Nil
    THEN Fails(st, "proposal_executed event for non-existing proposal")
    ELSE PersistProposal(st,
            [Deref(proposal) EXCEPT !.Status = 4, !.ExecutionTxHash = govEvent.TxHash],
            fail)

ApplyProposalExecuted(st, govEvent, proposal, fail) ==
    IF proposal = Nil
    THEN Fails(st, "proposal_executed event for non-existing proposal")
    ELSE IF Deref(proposal).Status = 4
    THEN Skips(st, "proposal_executed event for proposal that has already been executed")
    ELSE PersistProposal(st,
            [Deref(proposal) EXCEPT !.Status = 4, !.ExecutionTxHash = govEvent.TxHash],
            fail)

\* proposal_expired that expires only an Active proposal
ApplyProposalExpiredActiveOnly(st, govEvent, proposal, fail) ==
    IF proposal = Nil
    THEN Fails(st, "proposal_expired event for non-existing proposal")
    ELSE IF Deref(proposal).Status # 0
    THEN Skips(st, "proposal_expired event for proposal not in active state")
    ELSE PersistProposal(st, [Deref(proposal) EXCEPT !.Status = 3], fail)

ApplyProposalExpired(st, govEvent, proposal, fail) ==
    IF proposal = Nil
    THEN Fails(st, "proposal_expired event for non-existing proposal")
    ELSE IF Deref(proposal).Status # 0 /\ Deref(proposal).Status # 1
    THEN Skips(st, "proposal_expired event for proposal not in active state")
    ELSE PersistProposal(st, [Deref(proposal) EXCEPT !.Status = 3], fail)

\* a switch on voteCastData.Support that counts every other value as abstain
AddToTallyAnySupport(proposal, support, amountBig) ==
    CASE support = 0 ->
           LET totalAgainst == SetString(proposal.VotesAgainst)
           IN  IF ~totalAgainst.ok THEN [ok |-> FALSE, err |-> "invalid votes_against string"]
               ELSE [ok |-> TRUE,
                     proposal |-> [proposal EXCEPT
                        !.VotesAgainst = BigString(BigAdd(totalAgainst, amountBig))]]
      [] support = 1 ->
           LET totalFor == SetString(proposal.VotesFor)
           IN  IF ~totalFor.ok THEN [ok |-> FALSE, err |-> "invalid votes_for string"]
               ELSE [ok |-> TRUE,
                     proposal |-> [proposal EXCEPT
                        !.VotesFor = BigString(BigAdd(totalFor, amountBig))]]
      [] OTHER ->
           LET totalAbstain == SetString(proposal.VotesAbstain)
           IN  IF ~totalAbstain.ok THEN [ok |-> FALSE, err |-> "invalid votes_abstain string"]
               ELSE [ok |-> TRUE,
                     proposal |-> [proposal EXCEPT
                        !.VotesAbstain = BigString(BigAdd(totalAbstain, amountBig))]]

\* the switch on voteCastData.Support: the tally selected by support, parsed,
\* increased by the amount and formatted again
AddToTally(proposal, support, amountBig) ==
    CASE support = 0 ->
           LET totalAgainst == SetString(proposal.VotesAgainst)
           IN  IF ~totalAgainst.ok THEN [ok |-> FALSE, err |-> "invalid votes_against string"]
               ELSE [ok |-> TRUE,
                     proposal |-> [proposal EXCEPT
                        !.VotesAgainst = BigString(BigAdd(totalAgainst, amountBig))]]
      [] support = 1 ->
           LET totalFor == SetString(proposal.VotesFor)
           IN  IF ~totalFor.ok THEN [ok |-> FALSE, err |-> "invalid votes_for string"]
               ELSE [ok |-> TRUE,
                     proposal |-> [proposal EXCEPT
                        !.VotesFor = BigString(BigAdd(totalFor, amountBig))]]
      [] support = 2 ->
           LET totalAbstain == SetString(proposal.VotesAbstain)
           IN  IF ~totalAbstain.ok THEN [ok |-> FALSE, err |-> "invalid votes_abstain string"]
               ELSE [ok |-> TRUE,
                     proposal |-> [proposal EXCEPT
                        !.VotesAbstain = BigString(BigAdd(totalAbstain, amountBig))]]
      [] OTHER -> [ok |-> FALSE, err |-> "invalid support value"]

\* the vote_cast case after the duplicate check: count the vote, insert it
CountVote(st, govEvent, proposal, voteCastData, fail) ==
    LET amountBig == SetString(voteCastData.Amount)
    IN  IF ~amountBig.ok THEN Fails(st, "invalid amount string")
        ELSE LET tallied == AddToTally(proposal, voteCastData.Support, amountBig)
             IN  IF ~tallied.ok THEN Fails(st, tallied.err)
                 ELSE LET new == NewVoteFromVoteCastEvent(govEvent)
                      IN  IF ~new.ok THEN Fails(st, "failed to create vote from event")
                          ELSE IF fail = "InsertVote"
                          THEN Fails(st, "failed to insert vote into store")
                          ELSE PersistProposal(
                                 [st EXCEPT !.votes = InsertVote(@, new.vote)],
                                 tallied.proposal, fail)

\* vote_cast without the check of the status
ApplyVoteCastAnyStatus(st, govEvent, proposal, fail) ==
    IF proposal = Nil
    THEN Fails(st, "vote_cast event for non-existing proposal")
    ELSE LET voteCastData == UnmarshalVoteCastData(govEvent.EventData)
         IN  IF ~voteCastData.ok
             THEN Fails(st, "unable to unmarshal vote_cast event data")
             ELSE IF fail = "GetVote"
             THEN Fails(st, "error when attempting to get vote from store")
             ELSE IF GetVote(st.votes, govEvent.TxHash) # Nil
             THEN Skips(st, "vote_cast event already applied")
             ELSE CountVote(st, govEvent, Deref(proposal), voteCastData, fail)

\* vote_cast without the check for a stored Vote of the transaction
ApplyVoteCastRecounting(st, govEvent, proposal, fail) ==
    IF proposal = Nil
    THEN Fails(st, "vote_cast event for non-existing proposal")
    ELSE IF Deref(proposal).Status # 0
    THEN Skips(st, "vote_cast event for proposal not in active state")
    ELSE LET voteCastData == UnmarshalVoteCastData(govEvent.EventData)
         IN  IF ~voteCastData.ok
             THEN Fails(st, "unable to unmarshal vote_cast event data")
             ELSE CountVote(st, govEvent, Deref(proposal), voteCastData, fail)

ApplyVoteCast(st, govEvent, proposal, fail) ==
    IF proposal = Nil
    THEN Fails(st, "vote_cast event for non-existing proposal")
    ELSE IF Deref(proposal).Status # 0
    THEN Skips(st, "vote_cast event for proposal not in active state")
    ELSE LET voteCastData == UnmarshalVoteCastData(govEvent.EventData)
         IN  IF ~voteCastData.ok
             THEN Fails(st, "unable to unmarshal vote_cast event data")
             ELSE IF fail = "GetVote"
             THEN Fails(st, "error when attempting to get vote from store")
             ELSE IF GetVote(st.votes, govEvent.TxHash) # Nil
             THEN Skips(st, "vote_cast event already applied")
             ELSE CountVote(st, govEvent, Deref(proposal), voteCastData, fail)

\* ApplyEvent whose default case returns nil
ApplyEventUnknownTypeSkips(st, govEvent, fail) ==
    IF fail = "InsertEvent" THEN Fails(st, "failed to insert event into history")
    ELSE LET st1 == [st EXCEPT !.history = InsertEvent(@, govEvent)]
         IN  IF fail = "GetProposal"
             THEN Fails(st1, "error when attempting to get proposal from store")
             ELSE LET proposal == GetProposal(st1.proposals,
                                     EncodeProposalKey(govEvent.ContractId, govEvent.ProposalId))
                  IN  CASE govEvent.EventType = "proposal_created" ->
                             ApplyProposalCreated(st1, govEvent, proposal, fail)
                        [] govEvent.EventType = "proposal_canceled" ->
                             ApplyProposalCanceled(st1, govEvent, proposal, fail)
                        [] govEvent.EventType = "proposal_voting_closed" ->
                             ApplyProposalVotingClosed(st1, govEvent, proposal, fail)
                        [] govEvent.EventType = "proposal_executed" ->
                             ApplyProposalExecuted(st1, govEvent, proposal, fail)
                        [] govEvent.EventType = "proposal_expired" ->
                             ApplyProposalExpired(st1, govEvent, proposal, fail)
                        [] govEvent.EventType = "vote_cast" ->
                             ApplyVoteCast(st1, govEvent, proposal, fail)
                        [] OTHER -> Skips(st1, "invalid event type")

\* ApplyEvent that reads the proposal and runs the case of the event type
\* first and inserts the event into the history only when the case returned
\* nil
ApplyEventHistoryLast(st, govEvent, fail) ==
    IF fail = "GetProposal"
    THEN Fails(st, "error when attempting to get proposal from store")
    ELSE LET proposal == GetProposal(st.proposals,
                            EncodeProposalKey(govEvent.ContractId, govEvent.ProposalId))
             out == CASE govEvent.EventType = "proposal_created" ->
                            ApplyProposalCreated(st, govEvent, proposal, fail)
                      [] govEvent.EventType = "proposal_canceled" ->
                            ApplyProposalCanceled(st, govEvent, proposal, fail)
                      [] govEvent.EventType = "proposal_voting_closed" ->
                            ApplyProposalVotingClosed(st, govEvent, proposal, fail)
                      [] govEvent.EventType = "proposal_executed" ->
                            ApplyProposalExecuted(st, govEvent, proposal, fail)
                      [] govEvent.EventType = "proposal_expired" ->
                            ApplyProposalExpired(st, govEvent, proposal, fail)
                      [] govEvent.EventType = "vote_cast" ->
                            ApplyVoteCast(st, govEvent, proposal, fail)
                      [] OTHER -> Fails(st, "invalid event type")
         IN  IF out.err # NoError THEN out
             ELSE IF fail = "InsertEvent"
             THEN [out EXCEPT !.err = "failed to insert event into history"]
             ELSE [out EXCEPT !.history = InsertEvent(@, govEvent)]

ApplyEvent(st, govEvent, fail) ==
    IF fail = "InsertEvent" THEN Fails(st, "failed to insert event into history")
    ELSE LET st1 == [st EXCEPT !.history = InsertEvent(@, govEvent)]
         IN  IF fail = "GetProposal"
             THEN Fails(st1, "error when attempting to get proposal from store")
             ELSE LET proposal == GetProposal(st1.proposals,
                                     EncodeProposalKey(govEvent.ContractId, govEvent.ProposalId))
                  IN  CASE govEvent.EventType = "proposal_created" ->
                             ApplyProposalCreated(st1, govEvent, proposal, fail)
                        [] govEvent.EventType = "proposal_canceled" ->
                             ApplyProposalCanceled(st1, govEvent, proposal, fail)
                        [] govEvent.EventType = "proposal_voting_closed" ->
                             ApplyProposalVotingClosed(st1, govEvent, proposal, fail)
                        [] govEvent.EventType = "proposal_executed" ->
                             ApplyProposalExecuted(st1, govEvent, proposal, fail)
                        [] govEvent.EventType = "proposal_expired" ->
                             ApplyProposalExpired(st1, govEvent, proposal, fail)
                        [] govEvent.EventType = "vote_cast" ->
                             ApplyVoteCast(st1, govEvent, proposal, fail)
                        [] OTHER -> Fails(st1, "invalid event type")


(***************************************************************************)
(* internal/governor: NewGovernorEventFromContractEvent.  A contract event *)
(* is [Type, ContractId, V, Topics, Data]: ContractId is a pointer, V the  *)
(* arm of the body, Topics a sequence of ScVal and Data an ScVal.  An      *)
(* ScVal is [arm, val] with arm the arm of the union: val is a string for  *)
(* sym, str and address, a number for u32, the decimal string of the       *)
(* integer for i128, a sequence of ScVal for vec and a sequence of         *)
(* [Key, Val] entries for map.  A decoder returns [ok, err] or [ok, data]; *)
(* data is the JSON object json.Marshal makes of the decoded struct.       *)
(***************************************************************************)
ErrInvalidEventFormat == "event format is not valid"

ErrEventParsingFailed == "governor event parsing failed"

\* the decimal digits of a natural number, most significant first
RECURSIVE NatDigits(_)
NatDigits(n) == IF n = 0 THEN <<>> ELSE Append(NatDigits(n \div 10), n % 10)

\* the magnitude a times the natural number k
RECURSIVE MulMag(_, _, _)
MulMag(a, k, carry) ==
    IF a = <<>> THEN NatDigits(carry)
    ELSE LET p == a[Len(a)] * k + carry
         IN  Append(MulMag(Front(a), k, p \div 10), p % 10)

\* toid.New(ledgerSeq, txIndex, opIndex).ToInt64(): ledgerSeq << 32 |
\* txIndex << 12 | opIndex, for 0 <= txIndex < 2^20 and 0 <= opIndex < 2^12,
\* where the three bit fields do not overlap
ToInt64(ledgerSeq, txIndex, opIndex) ==
    AddMag(AddMag(MulMag(MulMag(NatDigits(ledgerSeq), 65536, 0), 65536, 0),
                  MulMag(NatDigits(txIndex), 4096, 0), 0),
           NatDigits(opIndex), 0)

\* fmt.Sprintf("%0<width>d") of a non-negative integer: zeros on the left up
\* to the width, every digit kept when there are more
ZeroPadded(mag, width) ==
    LET n == IF Len(mag) >= width THEN 0 ELSE width - Len(mag)
    IN  [i \in 1..(n + Len(mag)) |->
            IF i <= n THEN "0" ELSE DigitChars[mag[i - n] + 1]]

\* the characters of an event id without the zeros on the left
EventIdCharsUnpadded(ledgerSeq, txIndex, opIndex, eventIndex) ==
    ZeroPadded(ToInt64(ledgerSeq, txIndex, opIndex), 1) \o <<"-">>
        \o ZeroPadded(NatDigits(eventIndex), 1)

\* the characters of the event id: the 19 characters of the TOID, a hyphen
\* and the 10 characters of the event index
EventIdChars(ledgerSeq, txIndex, opIndex, eventIndex) ==
    ZeroPadded(ToInt64(ledgerSeq, txIndex, opIndex), 19) \o <<"-">>
        \o ZeroPadded(NatDigits(eventIndex), 10)

\* the string of a sequence of characters
RECURSIVE Join(_)
Join(chars) == IF chars = <<>> THEN "" ELSE chars[1] \o Join(Tail(chars))

\* the ids of the first events of the first transactions of the ledgers 10
\* to 12, formatted once: pairs of the arguments and the id
FormattedEventIds ==
    {<<t, Join(EventIdChars(t[1], t[2], t[3], t[4]))>> :
        t \in (10..12) \X (1..3) \X {0} \X (0..2)}

\* the event id of the RPC
EncodeEventId(ledgerSeq, txIndex, opIndex, eventIndex) ==
    IF \E p \in FormattedEventIds : p[1] = <<ledgerSeq, txIndex, opIndex, eventIndex>>
    THEN (CHOOSE p \in FormattedEventIds :
              p[1] = <<ledgerSeq, txIndex, opIndex, eventIndex>>)[2]
    ELSE Join(EventIdChars(ledgerSeq, txIndex, opIndex, eventIndex))

DecodeError(err) == [ok |-> FALSE, err |-> err]

\* entry.MarshalBinary() and base64.StdEncoding.EncodeToString
MarshalBase64(entry) == <<"base64", entry>>

NewProposalCreatedDataFromEventBody(body) ==
    IF Len(body.Topics) # 3 THEN DecodeError(ErrInvalidEventFormat)
    ELSE IF body.Topics[3].arm # "address" THEN DecodeError(ErrInvalidEventFormat)
    ELSE IF body.Data.arm # "vec" THEN DecodeError(ErrInvalidEventFormat)
    ELSE IF Len(body.Data.val) # 5 THEN DecodeError(ErrInvalidEventFormat)
    ELSE LET vecData == body.Data.val
         IN  IF vecData[1].arm # "str" THEN DecodeError(ErrEventParsingFailed)
             ELSE IF vecData[2].arm # "str" THEN DecodeError(ErrEventParsingFailed)
             ELSE IF vecData[4].arm # "u32" THEN DecodeError(ErrEventParsingFailed)
             ELSE IF vecData[5].arm # "u32" THEN DecodeError(ErrEventParsingFailed)
             ELSE [ok |-> TRUE,
                   data |-> [json       |-> "object",
                             proposer   |-> body.Topics[3].val,
                             title      |-> vecData[1].val,
                             desc       |-> vecData[2].val,
                             action     |-> MarshalBase64(vecData[3]),
                             vote_start |-> vecData[4].val,
                             vote_end   |-> vecData[5].val]]

\* the loop of NewVoteCountFromXDR over the entries of the map from index i
\* on: a later entry of a key replaces the value an earlier one has set
RECURSIVE VoteCountEntries(_, _, _)
VoteCountEntries(mapData, i, voteCount) ==
    IF i > Len(mapData) THEN [ok |-> TRUE, voteCount |-> voteCount]
    ELSE LET entry == mapData[i]
         IN  IF entry.Key.arm # "sym" THEN [ok |-> FALSE]
             ELSE IF entry.Key.val \notin {"_for", "against", "abstain"} THEN [ok |-> FALSE]
             ELSE IF entry.Val.arm # "i128" THEN [ok |-> FALSE]
             ELSE VoteCountEntries(mapData, i + 1,
                    CASE entry.Key.val = "_for"    -> [voteCount EXCEPT !.for = entry.Val.val]
                      [] entry.Key.val = "against" -> [voteCount EXCEPT !.against = entry.Val.val]
                      [] entry.Key.val = "abstain" -> [voteCount EXCEPT !.abstain = entry.Val.val])

NewVoteCountFromXDR(data) ==
    IF data.arm # "map" THEN [ok |-> FALSE]
    ELSE LET r == VoteCountEntries(data.val, 1,
                     [json |-> "object", for |-> <<>>, against |-> <<>>, abstain |-> <<>>])
         IN  IF ~r.ok THEN r
             ELSE IF \/ r.voteCount.for = <<>>
                     \/ r.voteCount.against = <<>>
                     \/ r.voteCount.abstain = <<>>
             THEN [ok |-> FALSE]
             ELSE r

NewProposalVotingClosedDataFromEventBody(body) ==
    IF Len(body.Topics) # 4 THEN DecodeError(ErrInvalidEventFormat)
    ELSE IF body.Topics[3].arm # "u32" THEN DecodeError(ErrInvalidEventFormat)
    ELSE IF body.Topics[4].arm # "u32" THEN DecodeError(ErrInvalidEventFormat)
    ELSE LET finalVotes == NewVoteCountFromXDR(body.Data)
         IN  IF ~finalVotes.ok THEN DecodeError(ErrEventParsingFailed)
             ELSE [ok |-> TRUE,
                   data |-> [json        |-> "object",
                             status      |-> body.Topics[3].val,
                             eta         |-> body.Topics[4].val,
                             final_votes |-> finalVotes.voteCount]]

NewVoteCastDataFromEventBody(body) ==
    IF Len(body.Topics) # 3 THEN DecodeError(ErrInvalidEventFormat)
    ELSE IF body.Topics[3].arm # "address" THEN DecodeError(ErrInvalidEventFormat)
    ELSE IF body.Data.arm # "vec" THEN DecodeError(ErrInvalidEventFormat)
    ELSE IF Len(body.Data.val) # 2 THEN DecodeError(ErrInvalidEventFormat)
    ELSE LET vecData == body.Data.val
         IN  IF vecData[1].arm # "u32" THEN DecodeError(ErrEventParsingFailed)
             ELSE IF vecData[2].arm # "i128" THEN DecodeError(ErrEventParsingFailed)
             ELSE [ok |-> TRUE,
                   data |-> [json    |-> "object",
                             voter   |-> body.Topics[3].val,
                             support |-> vecData[1].val,
                             amount  |-> vecData[2].val]]

\* a decoder that reports an event type it does not know as a parsing failure
NewGovernorEventFromContractEventStrict(ce, txHash, ledgerSeq, ledgerCloseTime, txIndex, eventIndex) ==
    IF ce.Type # "contract" \/ ce.ContractId = Nil \/ ce.V # 0
    THEN DecodeError(ErrInvalidEventFormat)
    ELSE IF Len(ce.Topics) < 2 THEN DecodeError(ErrInvalidEventFormat)
    ELSE IF ce.Topics[1].arm # "sym" THEN DecodeError(ErrInvalidEventFormat)
    ELSE IF ce.Topics[2].arm # "u32" THEN DecodeError(ErrInvalidEventFormat)
    ELSE LET eventType == ce.Topics[1].val
             event(eventData) ==
                 [ok |-> TRUE,
                  event |-> [EventId         |-> EncodeEventId(ledgerSeq, txIndex, 0, eventIndex),
                             ContractId      |-> Deref(ce.ContractId),
                             ProposalId      |-> ce.Topics[2].val,
                             EventType       |-> eventType,
                             EventData       |-> eventData,
                             TxHash          |-> txHash,
                             LedgerSeq       |-> ledgerSeq,
                             LedgerCloseTime |-> ledgerCloseTime]]
             decoded(r) == IF r.ok THEN event(r.data) ELSE r
         IN  CASE eventType = "proposal_created" ->
                    decoded(NewProposalCreatedDataFromEventBody(ce))
               [] eventType = "proposal_voting_closed" ->
                    decoded(NewProposalVotingClosedDataFromEventBody(ce))
               [] eventType = "vote_cast" ->
                    decoded(NewVoteCastDataFromEventBody(ce))
               [] eventType \in {"proposal_canceled", "proposal_executed", "proposal_expired"} ->
                    event([json |-> "object"])
               [] OTHER -> DecodeError(ErrEventParsingFailed)

NewGovernorEventFromContractEvent(ce, txHash, ledgerSeq, ledgerCloseTime, txIndex, eventIndex) ==
    IF ce.Type # "contract" \/ ce.ContractId = Nil \/ ce.V # 0
    THEN DecodeError(ErrInvalidEventFormat)
    ELSE IF Len(ce.Topics) < 2 THEN DecodeError(ErrInvalidEventFormat)
    ELSE IF ce.Topics[1].arm # "sym" THEN DecodeError(ErrInvalidEventFormat)
    ELSE IF ce.Topics[2].arm # "u32" THEN DecodeError(ErrInvalidEventFormat)
    ELSE LET eventType == ce.Topics[1].val
             event(eventData) ==
                 [ok |-> TRUE,
                  event |-> [EventId         |-> EncodeEventId(ledgerSeq, txIndex, 0, eventIndex),
                             ContractId      |-> Deref(ce.ContractId),
                             ProposalId      |-> ce.Topics[2].val,
                             EventType       |-> eventType,
                             EventData       |-> eventData,
                             TxHash          |-> txHash,
                             LedgerSeq       |-> ledgerSeq,
                             LedgerCloseTime |-> ledgerCloseTime]]
             decoded(r) == IF r.ok THEN event(r.data) ELSE r
         IN  CASE eventType = "proposal_created" ->
                    decoded(NewProposalCreatedDataFromEventBody(ce))
               [] eventType = "proposal_voting_closed" ->
                    decoded(NewProposalVotingClosedDataFromEventBody(ce))
               [] eventType = "vote_cast" ->
                    decoded(NewVoteCastDataFromEventBody(ce))
               [] eventType \in {"proposal_canceled", "proposal_executed", "proposal_expired"} ->
                    event([json |-> "object"])
               [] OTHER -> DecodeError(ErrInvalidEventFormat)

(***************************************************************************)
(* internal/indexer: Indexer.ApplyLedger.  A ledger is [CloseTime, Txs];   *)
(* a transaction is [Readable, Successful, Op0Ok, Op0, EventsError,        *)
(* Events] (Op0Ok: GetOperation(0) finds an operation), its index in the   *)
(* ledger starts at 1 and its hash is the pair of the ledger sequence and  *)
(* the index.  fail is [at, call]: the store call named call  *)
(* returns an error in the at-th call of ApplyEvent of the pass (at = 0:   *)
(* no store call fails).  acc is the store with calls, the number of       *)
(* ApplyEvent calls made, errors, the number of those that returned an     *)
(* error, storeFailed, whether one of them was an error of the store,      *)
(* txCount, the transactions read, and err, the error ApplyLedger returns. *)
(***************************************************************************)
TxHash(ledgerSeq, txIndex) == <<"tx", ledgerSeq, txIndex>>

\* the body of the loop over the events of a transaction
ApplyContractEvent(acc, ce, txHash, ledgerSeq, ledgerCloseTime, txIndex, eventIndex, fail) ==
    LET decoded == NewGovernorEventFromContractEvent(ce, txHash, ledgerSeq, ledgerCloseTime,
                                                     txIndex, eventIndex)
    IN  IF ~decoded.ok THEN acc
        ELSE LET n   == acc.calls + 1
                 out == ApplyEvent(acc.st, decoded.event,
                                   IF fail.at = n THEN fail.call ELSE "none")
             IN  [acc EXCEPT
                    !.st          = [history |-> out.history, proposals |-> out.proposals,
                                     votes |-> out.votes],
                    !.calls       = n,
                    !.errors      = IF out.err = NoError THEN @ ELSE @ + 1,
                    !.storeFailed = @ \/ out.err \in StoreErrors]

\* a loop over the events that takes the last event first
RECURSIVE ApplyContractEventsBackwards(_, _, _, _, _, _, _, _)
ApplyContractEventsBackwards(acc, events, i, txHash, ledgerSeq, ledgerCloseTime, txIndex, fail) ==
    IF i > Len(events) THEN acc
    ELSE ApplyContractEvent(
            ApplyContractEventsBackwards(acc, events, i + 1, txHash, ledgerSeq,
                                         ledgerCloseTime, txIndex, fail),
            events[i], txHash, ledgerSeq, ledgerCloseTime, txIndex, i - 1, fail)

\* a loop over the events that ends at the first event whose ApplyEvent
\* returns an error
RECURSIVE ApplyContractEventsUntilError(_, _, _, _, _, _, _, _)
ApplyContractEventsUntilError(acc, events, i, txHash, ledgerSeq, ledgerCloseTime, txIndex, fail) ==
    IF i > Len(events) \/ acc.errors > 0 THEN acc
    ELSE ApplyContractEventsUntilError(
            ApplyContractEvent(acc, events[i], txHash, ledgerSeq, ledgerCloseTime,
                               txIndex, i - 1, fail),
            events, i + 1, txHash, ledgerSeq, ledgerCloseTime, txIndex, fail)

\* for event_index, event := range events, from index i on (event_index = i - 1)
RECURSIVE ApplyContractEvents(_, _, _, _, _, _, _, _)
ApplyContractEvents(acc, events, i, txHash, ledgerSeq, ledgerCloseTime, txIndex, fail) ==
    IF i > Len(events) THEN acc
    ELSE ApplyContractEvents(
            ApplyContractEvent(acc, events[i], txHash, ledgerSeq, ledgerCloseTime,
                               txIndex, i - 1, fail),
            events, i + 1, txHash, ledgerSeq, ledgerCloseTime, txIndex, fail)

\* a loop over the transactions that takes the events of unsuccessful
\* transactions as well
RECURSIVE ApplyTransactionsUnfiltered(_, _, _, _, _, _)
ApplyTransactionsUnfiltered(acc, txs, txIndex, ledgerSeq, ledgerCloseTime, fail) ==
    IF txIndex > Len(txs) THEN acc
    ELSE LET tx == txs[txIndex]
             counted == [acc EXCEPT !.txCount = @ + 1]
         IN  IF ~tx.Readable
             THEN [acc EXCEPT !.err = "failed to read ledger transaction"]
             ELSE IF \/ ~tx.Op0Ok
                     \/ tx.Op0 # "InvokeHostFunction"
                     \/ tx.EventsError
             THEN ApplyTransactionsUnfiltered(counted, txs, txIndex + 1, ledgerSeq,
                                              ledgerCloseTime, fail)
             ELSE ApplyTransactionsUnfiltered(
                    ApplyContractEvents(counted, tx.Events, 1, TxHash(ledgerSeq, txIndex),
                                        ledgerSeq, ledgerCloseTime, txIndex, fail),
                    txs, txIndex + 1, ledgerSeq, ledgerCloseTime, fail)

\* the loop over txReader.Read(), from the transaction of index txIndex on
RECURSIVE ApplyTransactions(_, _, _, _, _, _)
ApplyTransactions(acc, txs, txIndex, ledgerSeq, ledgerCloseTime, fail) ==
    IF txIndex > Len(txs) THEN acc
    ELSE LET tx == txs[txIndex]
             counted == [acc EXCEPT !.txCount = @ + 1]
         IN  IF ~tx.Readable
             THEN [acc EXCEPT !.err = "failed to read ledger transaction"]
             ELSE IF \/ ~tx.Successful
                     \/ ~tx.Op0Ok
                     \/ tx.Op0 # "InvokeHostFunction"
                     \/ tx.EventsError
             THEN ApplyTransactions(counted, txs, txIndex + 1, ledgerSeq, ledgerCloseTime,
                                    fail)
             ELSE ApplyTransactions(
                    ApplyContractEvents(counted, tx.Events, 1, TxHash(ledgerSeq, txIndex),
                                        ledgerSeq, ledgerCloseTime, txIndex, fail),
                    txs, txIndex + 1, ledgerSeq, ledgerCloseTime, fail)

ApplyLedger(st, ledger, ledgerSeq, fail) ==
    ApplyTransactions([st |-> st, calls |-> 0, errors |-> 0, storeFailed |-> FALSE,
                       txCount |-> 0, err |-> NoError],
                      ledger.Txs, 1, ledgerSeq, ledger.CloseTime, fail)

(***************************************************************************)
(* internal/db: the status table                                           *)
(***************************************************************************)
\* SELECT ledger_seq FROM status WHERE source = $1: 0 when there is no row
GetLedgerSeq(st, source) == IF source \in DOMAIN st THEN st[source] ELSE 0

\* INSERT INTO status ... ON CONFLICT (source) DO UPDATE SET ledger_seq
UpsertLedgerSeq(st, source, ledgerSeq) ==
    IF source \in DOMAIN st THEN [st EXCEPT ![source] = ledgerSeq]
    ELSE (source :> ledgerSeq) @@ st

(***************************************************************************)
(* The events handed to ApplyEvent                                         *)
(***************************************************************************)
MaxCalls == 3

ContractIds == {"CA"}

ProposalIds == {1, 2}

EventIds == {1}

\* "20000000000" and "18446744073709551615" (2^64 - 1)
Amount1 == <<"2","0","0","0","0","0","0","0","0","0","0">>

Amount2 == <<"1","8","4","4","6","7","4","4","0","7","3","7","0","9","5","5","1","6","1","5">>

BadAmount == <<"1","e","3">>

Amounts == {Amount1, Amount2, BadAmount}

Supports == {0, 1, 2, 3}

ClosedStatuses == {0, 1, 2}

InvalidJson == [json |-> "invalid"]

EmptyObject == [json |-> "object"]

ProposalCreatedPayloads ==
    {[json |-> "object", proposer |-> "GA", title |-> "T1", desc |-> "D1",
      action |-> "AAAA", vote_start |-> 10, vote_end |-> 20],
     [json |-> "object", proposer |-> "GB", title |-> "T2", desc |-> "D2",
      action |-> "BBBB", vote_start |-> 11, vote_end |-> 21],
     InvalidJson}

ProposalVotingClosedPayloads ==
    {[json |-> "object", status |-> s, eta |-> 7,
      final_votes |-> [json |-> "object", for |-> <<"3">>, against |-> <<"1">>,
                       abstain |-> <<"0">>]] : s \in ClosedStatuses}
    \cup {InvalidJson}

VoteCastPayload(s, a) == [json |-> "object", voter |-> "GV", support |-> s, amount |-> a]

VoteCastPayloads ==
    {VoteCastPayload(s, a) : s \in Supports, a \in Amounts} \cup {InvalidJson}

Payloads(eventType) ==
    CASE eventType = "proposal_created" -> ProposalCreatedPayloads
      [] eventType = "proposal_voting_closed" -> ProposalVotingClosedPayloads
      [] eventType = "vote_cast" -> VoteCastPayloads
      [] OTHER -> {EmptyObject}

\* the transaction hash matters to vote_cast and proposal_executed only
TxHashes(eventType) ==
    IF eventType \in {"vote_cast", "proposal_executed"} THEN {"ta", "tb"} ELSE {"ta"}

EventTypes == {"proposal_created", "proposal_canceled", "proposal_voting_closed",
               "proposal_executed", "proposal_expired", "vote_cast", "transfer"}

EventsOfType(t) ==
    [EventId : EventIds, ContractId : ContractIds, ProposalId : ProposalIds,
     EventType : {t}, EventData : Payloads(t), TxHash : TxHashes(t),
     LedgerSeq : {100}, LedgerCloseTime : {1000}]

GovernorEvents == UNION {EventsOfType(t) : t \in EventTypes}

FailPoints == StoreCalls \cup {"none"}

(***************************************************************************)
(* The ledgers the backend serves                                          *)
(***************************************************************************)
LedgerBackendStartSeq == 10

LastLedgerSeq == 11

MaxPasses == 3

MaxTxs == 2

MaxChainEvents == 2

Sym(s) == [arm |-> "sym", val |-> s]

U32(n) == [arm |-> "u32", val |-> n]

Address(a) == [arm |-> "address", val |-> a]

Str(s) == [arm |-> "str", val |-> s]

I128(digits) == [arm |-> "i128", val |-> digits]

Vec(entries) == [arm |-> "vec", val |-> entries]

Map(entries) == [arm |-> "map", val |-> entries]

Void == [arm |-> "void", val |-> 0]

\* a contract event of contract CA with the topics after the event type and
\* the proposal id given by topics
ContractEvent(eventType, proposalId, topics, data) ==
    [Type |-> "contract", ContractId |-> Ptr("CA"), V |-> 0,
     Topics |-> <<Sym(eventType), U32(proposalId)>> \o topics,
     Data |-> data]

ProposalCreatedContractEvent ==
    ContractEvent("proposal_created", 1, <<Address("GA")>>,
                  Vec(<<Str("T1"), Str("D1"), Vec(<<Sym("Council")>>), U32(10), U32(20)>>))

VoteCount(for, against, abstain) ==
    Map(<<[Key |-> Sym("_for"), Val |-> I128(for)],
          [Key |-> Sym("against"), Val |-> I128(against)],
          [Key |-> Sym("abstain"), Val |-> I128(abstain)]>>)

ContractEvents ==
    {ProposalCreatedContractEvent,
     ContractEvent("vote_cast", 1, <<Address("GV")>>, Vec(<<U32(1), I128(Amount1)>>)),
     ContractEvent("proposal_voting_closed", 1, <<U32(0), U32(7)>>,
                   VoteCount(<<"3">>, <<"1">>, <<"0">>)),
     ContractEvent("vote_cast", 1, <<Address("GV")>>, Vec(<<Void, I128(Amount1)>>)),
     ContractEvent("transfer", 1, <<>>, Void)}

InvokeTx(events) ==
    [Readable |-> TRUE, Successful |-> TRUE, Op0Ok |-> TRUE, Op0 |-> "InvokeHostFunction",
     EventsError |-> FALSE, Events |-> events]

\* transactions ApplyLedger does not take events from
OtherTxs ==
    {[InvokeTx(<<ProposalCreatedContractEvent>>) EXCEPT !.Successful = FALSE],
     [InvokeTx(<<ProposalCreatedContractEvent>>) EXCEPT !.Op0Ok = FALSE],
     [InvokeTx(<<ProposalCreatedContractEvent>>) EXCEPT !.Op0 = "Payment"],
     [InvokeTx(<<ProposalCreatedContractEvent>>) EXCEPT !.EventsError = TRUE],
     [InvokeTx(<<ProposalCreatedContractEvent>>) EXCEPT !.Readable = FALSE]}

Txs ==
    {InvokeTx(events) :
        events \in UNION {[1..n -> ContractEvents] : n \in 0..MaxChainEvents}}
    \cup OtherTxs

RECURSIVE EventCount(_)
EventCount(txs) ==
    IF txs = <<>> THEN 0 ELSE Len(Head(txs).Events) + EventCount(Tail(txs))

Ledgers ==
    {[CloseTime |-> 1000, Txs |-> txs] :
        txs \in {t \in UNION {[1..n -> Txs] : n \in 0..MaxTxs} :
                    EventCount(t) <= MaxChainEvents}}

\* the store fails at most once in a pass, in the first call of ApplyEvent
LedgerFailures ==
    {[at |-> 0, call |-> "none"]} \cup {[at |-> 1, call |-> c] : c \in StoreCalls}

(***************************************************************************)
(* State: the three tables, the number of calls made and what the last     *)
(* call returned and logged.  Two history variables record what the tables *)
(* do not: votingClosed, the proposals a proposal_voting_closed event has  *)
(* been applied to, and succeeded, the events whose call returned nil.     *)
(***************************************************************************)
Store == [history |-> history, proposals |-> proposals, votes |-> votes]

KeyOf(govEvent) == EncodeProposalKey(govEvent.ContractId, govEvent.ProposalId)

Init ==
    /\ history = EmptyTable
    /\ proposals = EmptyTable
    /\ votes = EmptyTable
    /\ last = [op |-> "init"]
    /\ calls = 0
    /\ votingClosed = {}
    /\ succeeded = {}
    /\ status = EmptyTable
    /\ seq = LedgerBackendStartSeq
    /\ pc = "apply"
    /\ chain = EmptyTable
    /\ clean = {}
    /\ workers = <<>>

\* one call of Indexer.ApplyEvent
ApplyEventCall(govEvent, fail) ==
    LET out == ApplyEvent(Store, govEvent, fail)
    IN  /\ calls < MaxCalls
        /\ calls' = calls + 1
        /\ history' = out.history
        /\ proposals' = out.proposals
        /\ votes' = out.votes
        /\ last' = [op |-> "ApplyEvent", type |-> govEvent.EventType,
                    err |-> out.err, log |-> out.log]
        /\ votingClosed' =
             IF /\ govEvent.EventType = "proposal_voting_closed"
                /\ out.log = "Event applied successfully"
             THEN votingClosed \cup {KeyOf(govEvent)}
             ELSE votingClosed
        /\ UNCHANGED <<status, seq, pc, chain, clean, workers>>

DoApplyEvent(govEvent, fail) ==
    /\ ApplyEventCall(govEvent, fail)
    /\ UNCHANGED succeeded

Next == \E govEvent \in GovernorEvents, fail \in FailPoints :
            DoApplyEvent(govEvent, fail)

Spec == Init /\ [][Next]_vars

\* the same calls, remembering the events whose call returned nil
DoApplyEventTracked(govEvent, fail) ==
    /\ ApplyEventCall(govEvent, fail)
    /\ succeeded' = IF ApplyEvent(Store, govEvent, fail).err = NoError
                    THEN succeeded \cup {govEvent}
                    ELSE succeeded

NextTracked == \E govEvent \in GovernorEvents, fail \in FailPoints :
                   DoApplyEventTracked(govEvent, fail)

SpecTracked == Init /\ [][NextTracked]_vars

(***************************************************************************)
(* Calls of ApplyEvent without a failure of the store, the events arriving *)
(* with ascending event ids: a new event takes the next id, a re-delivery  *)
(* hands a row of the history table to ApplyEvent again.                   *)
(***************************************************************************)
\* the events of proposal 1 that arrive, without their ids
OrderedEvents ==
    {e \in GovernorEvents :
        /\ e.ProposalId = 1
        /\ e.EventType # "transfer"
        /\ e.EventData \in
             {[json |-> "object"],
              CHOOSE d \in ProposalCreatedPayloads : d.json = "object" /\ d.proposer = "GA",
              VoteCastPayload(1, Amount1)}
             \cup (ProposalVotingClosedPayloads \ {InvalidJson})}

NextEventId == Cardinality(DOMAIN history) + 1

DeliverNext(govEvent) ==
    /\ ApplyEventCall([govEvent EXCEPT !.EventId = NextEventId], "none")
    /\ UNCHANGED succeeded

Redeliver(eventId) ==
    /\ ApplyEventCall(history[eventId], "none")
    /\ UNCHANGED succeeded

NextOrdered ==
    \/ \E govEvent \in OrderedEvents : DeliverNext(govEvent)
    \/ \E eventId \in DOMAIN history : Redeliver(eventId)

SpecOrdered == Init /\ [][NextOrdered]_vars

(***************************************************************************)
(* cmd/indexer: the loop of main over the ledgers of the backend.  status  *)
(* is the status table, seq the loop's variable, pc the place of the       *)
(* process in the loop, chain the ledgers read so far (the backend serves  *)
(* the same ledger for the same sequence), and clean the ledgers no pass   *)
(* of which met a failure of the store.  calls counts the passes.          *)
(***************************************************************************)
Max(a, b) == IF a >= b THEN a ELSE b

\* the number of contract events in the ledgers of sequence from..LastLedgerSeq
\* read so far
RECURSIVE ChainEvents(_)
ChainEvents(from) ==
    IF from > LastLedgerSeq THEN 0
    ELSE (IF from \in DOMAIN chain THEN EventCount(chain[from].Txs) ELSE 0)
         + ChainEvents(from + 1)

\* backend.GetLedger and idx.ApplyLedger, whose result main ignores
ProcessLedger(ledger, fail) ==
    /\ pc = "apply"
    /\ seq <= LastLedgerSeq
    /\ calls < MaxPasses
    /\ IF seq \in DOMAIN chain THEN ledger = chain[seq]
       ELSE ChainEvents(LedgerBackendStartSeq) + EventCount(ledger.Txs) <= MaxChainEvents
    /\ LET out == ApplyLedger(Store, ledger, seq, fail)
       IN  /\ history' = out.st.history
           /\ proposals' = out.st.proposals
           /\ votes' = out.st.votes
           /\ last' = [op |-> "ApplyLedger", replay |-> seq \in DOMAIN chain,
                       storeFailed |-> out.storeFailed]
           /\ clean' = IF out.storeFailed THEN clean \ {seq}
                       ELSE IF seq \in DOMAIN chain THEN clean
                       ELSE clean \cup {seq}
    /\ chain' = IF seq \in DOMAIN chain THEN chain ELSE (seq :> ledger) @@ chain
    /\ calls' = calls + 1
    /\ pc' = "checkpoint"
    /\ UNCHANGED <<status, seq, votingClosed, succeeded, workers>>

\* a loop that writes the checkpoint only after a pass in which no call of
\* ApplyEvent returned an error of the store
CheckpointUnlessStoreFailed(ok) ==
    /\ pc = "checkpoint"
    /\ status' = IF ok /\ ~last.storeFailed
                 THEN UpsertLedgerSeq(status, "indexer", seq) ELSE status
    /\ seq' = seq + 1
    /\ pc' = "apply"
    /\ last' = [op |-> "UpsertStatus", ok |-> ok]
    /\ UNCHANGED <<history, proposals, votes, calls, votingClosed, succeeded, chain, clean, workers>>

\* store.UpsertStatus, whose error main only logs, and seq++
Checkpoint(ok) ==
    /\ pc = "checkpoint"
    /\ status' = IF ok THEN UpsertLedgerSeq(status, "indexer", seq) ELSE status
    /\ seq' = seq + 1
    /\ pc' = "apply"
    /\ last' = [op |-> "UpsertStatus", ok |-> ok]
    /\ UNCHANGED <<history, proposals, votes, calls, votingClosed, succeeded, chain, clean, workers>>

\* backend.GetLedger returns an error: the loop breaks
Stop ==
    /\ pc = "apply"
    /\ seq > LastLedgerSeq
    /\ pc' = "stopped"
    /\ last' = [op |-> "GetLedger", ok |-> FALSE]
    /\ UNCHANGED <<history, proposals, votes, calls, votingClosed, succeeded,
                   status, seq, chain, clean, workers>>

\* a start of main that takes the configured sequence whatever the
\* checkpoint is
RestartAtConfiguredStart ==
    /\ seq' = LedgerBackendStartSeq
    /\ pc' = "apply"
    /\ last' = [op |-> "main"]
    /\ UNCHANGED <<history, proposals, votes, calls, votingClosed, succeeded,
                   status, chain, clean, workers>>

\* a start of main that goes on with the ledger after the checkpoint
RestartAfterCheckpoint ==
    /\ seq' = Max(GetLedgerSeq(status, "indexer") + 1, LedgerBackendStartSeq)
    /\ pc' = "apply"
    /\ last' = [op |-> "main"]
    /\ UNCHANGED <<history, proposals, votes, calls, votingClosed, succeeded,
                   status, chain, clean, workers>>

\* the process ends, wherever it is, and main starts again
Restart ==
    /\ seq' = Max(GetLedgerSeq(status, "indexer"), LedgerBackendStartSeq)
    /\ pc' = "apply"
    /\ last' = [op |-> "main"]
    /\ UNCHANGED <<history, proposals, votes, calls, votingClosed, succeeded,
                   status, chain, clean, workers>>

NextLedger ==
    \/ \E ledger \in Ledgers, fail \in LedgerFailures : ProcessLedger(ledger, fail)
    \/ \E ok \in BOOLEAN : Checkpoint(ok)
    \/ Stop
    \/ Restart

SpecLedger == Init /\ [][NextLedger]_vars


(***************************************************************************)
(* Two calls of Indexer.ApplyEvent at the same time.  The indexer makes    *)
(* its calls one after the other; here two workers each make one call for  *)
(* a vote_cast event, and a step of a worker is one call of the store      *)
(* together with the computation that follows it.  workers[w] is the       *)
(* position of worker w, the event it applies, the Proposal it has read    *)
(* and concurrent, whether the other worker was inside its call when w     *)
(* began.                                                                  *)
(***************************************************************************)
Workers == {1, 2}

ConcurrentProposalCreated ==
    [EventId |-> 0, ContractId |-> "CA", ProposalId |-> 1,
     EventType |-> "proposal_created",
     EventData |-> [json |-> "object", proposer |-> "GA", title |-> "T1", desc |-> "D1",
                    action |-> "AAAA", vote_start |-> 10, vote_end |-> 20],
     TxHash |-> "tc", LedgerSeq |-> 100, LedgerCloseTime |-> 1000]

\* the vote_cast events worker w may apply: its own event id and tx hash
ConcurrentVotes(w) ==
    {[EventId |-> w, ContractId |-> "CA", ProposalId |-> 1, EventType |-> "vote_cast",
      EventData |-> VoteCastPayload(s, a),
      TxHash |-> IF w = 1 THEN "ta" ELSE "tb",
      LedgerSeq |-> 100, LedgerCloseTime |-> 1000] :
        s \in {0, 1, 2}, a \in {Amount1, Amount2}}

Idle == [pc |-> "idle", govEvent |-> Nil, proposal |-> Nil, concurrent |-> FALSE]

\* the store holds one Active Proposal, created by a call of ApplyEvent
InitConcurrent ==
    LET out == ApplyEvent([history |-> EmptyTable, proposals |-> EmptyTable,
                           votes |-> EmptyTable], ConcurrentProposalCreated, "none")
    IN  /\ history = out.history
        /\ proposals = out.proposals
        /\ votes = out.votes
        /\ last = [op |-> "init"]
        /\ calls = 0
        /\ votingClosed = {}
        /\ succeeded = {}
        /\ status = EmptyTable
        /\ seq = LedgerBackendStartSeq
        /\ pc = "apply"
        /\ chain = EmptyTable
        /\ clean = {}
        /\ workers = [w \in Workers |-> Idle]

Inside(w) == workers[w].pc \notin {"idle", "done"}

WorkerFrame == UNCHANGED <<last, calls, votingClosed, succeeded, status, seq, pc, chain, clean>>

\* ApplyEvent is called
WorkerStart(w, govEvent) ==
    /\ workers[w].pc = "idle"
    /\ workers' = [workers EXCEPT ![w] =
                      [pc |-> "InsertEvent", govEvent |-> govEvent, proposal |-> Nil,
                       concurrent |-> \E v \in Workers \ {w} : Inside(v)]]
    /\ UNCHANGED <<history, proposals, votes>>
    /\ WorkerFrame

\* idx.store.InsertEvent
WorkerInsertEvent(w) ==
    /\ workers[w].pc = "InsertEvent"
    /\ history' = InsertEvent(history, workers[w].govEvent)
    /\ workers' = [workers EXCEPT ![w].pc = "GetProposal"]
    /\ UNCHANGED <<proposals, votes>>
    /\ WorkerFrame

\* idx.store.GetProposal, the checks of case "vote_cast" and json.Unmarshal
WorkerGetProposal(w) ==
    /\ workers[w].pc = "GetProposal"
    /\ LET proposal == GetProposal(proposals, KeyOf(workers[w].govEvent))
       IN  workers' = [workers EXCEPT
              ![w].proposal = proposal,
              ![w].pc = IF proposal = Nil THEN "done"
                        ELSE IF Deref(proposal).Status # 0 THEN "done"
                        ELSE IF ~UnmarshalVoteCastData(workers[w].govEvent.EventData).ok
                        THEN "done"
                        ELSE "GetVote"]
    /\ UNCHANGED <<history, proposals, votes>>
    /\ WorkerFrame

\* idx.store.GetVote and the addition of the amount to the tally of the
\* Proposal the worker has read
WorkerGetVote(w) ==
    /\ workers[w].pc = "GetVote"
    /\ LET govEvent     == workers[w].govEvent
           voteCastData == UnmarshalVoteCastData(govEvent.EventData)
           amountBig    == SetString(voteCastData.Amount)
           tallied      == AddToTally(Deref(workers[w].proposal), voteCastData.Support,
                                      amountBig)
       IN  workers' =
             IF GetVote(votes, govEvent.TxHash) # Nil \/ ~amountBig.ok \/ ~tallied.ok
             THEN [workers EXCEPT ![w].pc = "done"]
             ELSE [workers EXCEPT ![w].pc = "InsertVote",
                                  ![w].proposal = Ptr(tallied.proposal)]
    /\ UNCHANGED <<history, proposals, votes>>
    /\ WorkerFrame

\* governor.NewVoteFromVoteCastEvent and idx.store.InsertVote
WorkerInsertVote(w) ==
    /\ workers[w].pc = "InsertVote"
    /\ LET new == NewVoteFromVoteCastEvent(workers[w].govEvent)
       IN  IF new.ok
           THEN /\ votes' = InsertVote(votes, new.vote)
                /\ workers' = [workers EXCEPT ![w].pc = "UpsertProposal"]
           ELSE /\ votes' = votes
                /\ workers' = [workers EXCEPT ![w].pc = "done"]
    /\ UNCHANGED <<history, proposals>>
    /\ WorkerFrame

\* an upsert that leaves the row of a stored proposal_key as it is
WorkerUpsertProposalDoNothing(w) ==
    /\ workers[w].pc = "UpsertProposal"
    /\ proposals' = IF Deref(workers[w].proposal).ProposalKey \in DOMAIN proposals
                    THEN proposals
                    ELSE UpsertProposal(proposals, Deref(workers[w].proposal))
    /\ workers' = [workers EXCEPT ![w].pc = "done"]
    /\ UNCHANGED <<history, votes>>
    /\ WorkerFrame

\* idx.store.UpsertProposal
WorkerUpsertProposal(w) ==
    /\ workers[w].pc = "UpsertProposal"
    /\ proposals' = UpsertProposal(proposals, Deref(workers[w].proposal))
    /\ workers' = [workers EXCEPT ![w].pc = "done"]
    /\ UNCHANGED <<history, votes>>
    /\ WorkerFrame

NextConcurrent ==
    \E w \in Workers :
        \/ \E govEvent \in ConcurrentVotes(w) : WorkerStart(w, govEvent)
        \/ WorkerInsertEvent(w)
        \/ WorkerGetProposal(w)
        \/ WorkerGetVote(w)
        \/ WorkerInsertVote(w)
        \/ WorkerUpsertProposal(w)

SpecConcurrent == InitConcurrent /\ [][NextConcurrent]_vars


(***************************************************************************)
(* governor.EncodeEventId on its own: the ids of two events                *)
(***************************************************************************)
\* the largest ledger sequence int32(ledgerSeq) keeps, the largest
\* transaction and operation index a TOID has room for (20 and 12 bits) and
\* the largest event index (int32)
MaxLedgerSeq == 2147483647

MaxTxIndex == 1048575

MaxOpIndex == 4095

MaxEventIndex == 2147483647

EncodeInputs ==
    {0, 1, MaxLedgerSeq} \X {0, 1, MaxTxIndex} \X {0, 1, MaxOpIndex}
        \X {0, 1, 9, 10, MaxEventIndex}

\* the arguments of two calls
InitEncode ==
    /\ \E a \in EncodeInputs, b \in EncodeInputs :
           last = [op |-> "arguments", a |-> a, b |-> b]
    /\ history = EmptyTable
    /\ proposals = EmptyTable
    /\ votes = EmptyTable
    /\ calls = 0
    /\ votingClosed = {}
    /\ succeeded = {}
    /\ status = EmptyTable
    /\ seq = LedgerBackendStartSeq
    /\ pc = "apply"
    /\ chain = EmptyTable
    /\ clean = {}
    /\ workers = <<>>

\* EncodeEventId is called for the events a and b
EncodeEventIds ==
    /\ last.op = "arguments"
    /\ last' = [op |-> "EncodeEventId", a |-> last.a, b |-> last.b,
                ida |-> EventIdChars(last.a[1], last.a[2], last.a[3], last.a[4]),
                idb |-> EventIdChars(last.b[1], last.b[2], last.b[3], last.b[4]),
                id  |-> EncodeEventId(last.a[1], last.a[2], last.a[3], last.a[4])]
    /\ UNCHANGED <<history, proposals, votes, calls, votingClosed, succeeded,
                   status, seq, pc, chain, clean, workers>>

NextEncode == EncodeEventIds

SpecEncode == InitEncode /\ [][NextEncode]_vars


(***************************************************************************)
(* governor.NewGovernorEventFromContractEvent on its own: envelopes of     *)
(* contract CA with an event type and a u32 proposal id in the first two   *)
(* topics, and every combination of the remaining topics and the data      *)
(***************************************************************************)
\* the topics after the proposal id
TopicTails ==
    {<<>>, <<Address("GA")>>, <<U32(0)>>, <<U32(0), U32(7)>>, <<Address("GA"), U32(7)>>,
     <<U32(0), Address("GA")>>}

VecPayloads ==
    {Vec(<<>>),
     Vec(<<U32(1), I128(Amount1)>>),
     Vec(<<Void, I128(Amount1)>>),
     Vec(<<U32(1), Str("20")>>),
     Vec(<<Str("T1"), Str("D1"), Vec(<<Sym("Council")>>), U32(10), U32(20)>>),
     Vec(<<Str("T1"), Void, Vec(<<Sym("Council")>>), U32(10), U32(20)>>),
     Vec(<<Str("T1"), Str("D1"), Vec(<<Sym("Council")>>), U32(10), Str("20")>>)}

MapPayloads ==
    {VoteCount(<<"3">>, <<"1">>, <<"0">>),
     Map(<<[Key |-> Sym("_for"), Val |-> I128(<<"3">>)],
           [Key |-> Sym("against"), Val |-> I128(<<"1">>)]>>),
     Map(<<[Key |-> Sym("_for"), Val |-> I128(<<"3">>)],
           [Key |-> Sym("against"), Val |-> I128(<<"1">>)],
           [Key |-> Sym("abstain"), Val |-> U32(0)]>>),
     Map(<<[Key |-> Sym("_for"), Val |-> I128(<<"3">>)],
           [Key |-> Sym("against"), Val |-> I128(<<"1">>)],
           [Key |-> Sym("quorum"), Val |-> I128(<<"0">>)]>>),
     Map(<<[Key |-> Sym("_for"), Val |-> I128(<<"3">>)],
           [Key |-> Sym("against"), Val |-> I128(<<"1">>)],
           [Key |-> Sym("abstain"), Val |-> I128(<<"0">>)],
           [Key |-> Sym("_for"), Val |-> I128(<<"9">>)]>>),
     Map(<<[Key |-> Sym("_for"), Val |-> I128(<<"3">>)],
           [Key |-> Sym("against"), Val |-> I128(<<"1">>)],
           [Key |-> Sym("abstain"), Val |-> I128(<<"0">>)],
           [Key |-> Sym("quorum"), Val |-> I128(<<"0">>)]>>)}

\* proposal_created envelopes that are not of contract kind, have no
\* contract address, have another body version, or lack one of the first
\* two topics or have it with the wrong type
EnvelopeFaults ==
    {[ProposalCreatedContractEvent EXCEPT !.Type = "system"],
     [ProposalCreatedContractEvent EXCEPT !.Type = "diagnostic"],
     [ProposalCreatedContractEvent EXCEPT !.ContractId = Nil],
     [ProposalCreatedContractEvent EXCEPT !.V = 1],
     [ProposalCreatedContractEvent EXCEPT !.Topics = <<>>],
     [ProposalCreatedContractEvent EXCEPT !.Topics = <<Sym("proposal_created")>>],
     [ProposalCreatedContractEvent EXCEPT !.Topics[1] = Str("proposal_created")],
     [ProposalCreatedContractEvent EXCEPT !.Topics[2] = I128(<<"1">>)]}

DecodeInputs ==
    {ContractEvent(t, 1, topics, data) :
        t \in {"proposal_created", "proposal_voting_closed", "vote_cast", "proposal_canceled",
               "transfer"},
        topics \in TopicTails,
        data \in VecPayloads \cup MapPayloads \cup {Void}}
    \cup EnvelopeFaults

\* an envelope
InitDecode ==
    /\ \E ce \in DecodeInputs : last = [op |-> "envelope", ce |-> ce]
    /\ history = EmptyTable
    /\ proposals = EmptyTable
    /\ votes = EmptyTable
    /\ calls = 0
    /\ votingClosed = {}
    /\ succeeded = {}
    /\ status = EmptyTable
    /\ seq = LedgerBackendStartSeq
    /\ pc = "apply"
    /\ chain = EmptyTable
    /\ clean = {}
    /\ workers = <<>>

\* the loop of ApplyLedger over the events of the first transaction of a
\* ledger, which emits the envelope and then proposal_created for proposal
\* 1: the decoder is called as ApplyLedger calls it, and ApplyLedger logs
\* "Failed parsing event" when errors.Is(err, governor.ErrEventParsingFailed)
DecodeEnvelope ==
    /\ last.op = "envelope"
    /\ LET r   == NewGovernorEventFromContractEvent(last.ce, TxHash(seq, 1), seq, 1000, 1, 0)
           out == ApplyContractEvents(
                    [st |-> Store, calls |-> 0, errors |-> 0, storeFailed |-> FALSE,
                     txCount |-> 1, err |-> NoError],
                    <<last.ce, ProposalCreatedContractEvent>>, 1, TxHash(seq, 1), seq, 1000, 1,
                    [at |-> 0, call |-> "none"])
       IN  /\ last' = [op |-> "NewGovernorEventFromContractEvent", ce |-> last.ce,
                       ok |-> r.ok,
                       err |-> IF r.ok THEN NoError ELSE r.err,
                       logged |-> ~r.ok /\ r.err = ErrEventParsingFailed,
                       calls |-> out.calls]
           /\ history' = out.st.history
           /\ proposals' = out.st.proposals
           /\ votes' = out.st.votes
    /\ UNCHANGED <<calls, votingClosed, succeeded, status, seq, pc, chain, clean, workers>>

NextDecode == DecodeEnvelope

SpecDecode == InitDecode /\ [][NextDecode]_vars


(***************************************************************************)
(* Vocabulary of the properties                                            *)
(***************************************************************************)
\* what a call without a store failure returns in the current state
Applied(govEvent) == ApplyEvent(Store, govEvent, "none")

Exists(govEvent) == KeyOf(govEvent) \in DOMAIN proposals

Current(govEvent) == proposals[KeyOf(govEvent)]

\* the call left the proposals and votes tables as they are
Untouched(out) == out.proposals = proposals /\ out.votes = votes

\* a decimal integer: an optional sign and one or more digits
IsDecimal(s) ==
    LET body == IF s # <<>> /\ s[1] \in {"+", "-"} THEN Tail(s) ELSE s
    IN  body # <<>> /\ \A i \in 1..Len(body) : body[i] \in
            {"0", "1", "2", "3", "4", "5", "6", "7", "8", "9"}

\* no sign unless negative, no leading zero, no negative zero
IsCanonical(s) ==
    /\ IsDecimal(s)
    /\ s[1] # "+"
    /\ s = <<"0">> \/ (IF s[1] = "-" THEN s[2] ELSE s[1]) # "0"

\* three pairwise coprime moduli whose product exceeds every tally of the
\* model: an integer below the product is determined by its three residues
Moduli == {99999989, 99999971, 99999959}

\* the value of a digit character
DigitOf ==
    [c \in {"0", "1", "2", "3", "4", "5", "6", "7", "8", "9"} |->
        CASE c = "0" -> 0 [] c = "1" -> 1 [] c = "2" -> 2 [] c = "3" -> 3
          [] c = "4" -> 4 [] c = "5" -> 5 [] c = "6" -> 6 [] c = "7" -> 7
          [] c = "8" -> 8 [] c = "9" -> 9]

\* Horner's rule over the characters i..Len(s) of s, modulo m
RECURSIVE DigitsMod(_, _, _, _)
DigitsMod(s, i, m, acc) ==
    IF i > Len(s) THEN acc
    ELSE DigitsMod(s, i + 1, m, (acc * 10 + DigitOf[s[i]]) % m)

\* the residue modulo m of the integer the decimal string s denotes
ValueMod(s, m) ==
    LET r == DigitsMod(s, IF s[1] \in {"+", "-"} THEN 2 ELSE 1, m, 0)
    IN  IF s[1] = "-" THEN (m - r) % m ELSE r

\* sum is the canonical decimal string of the integer old + amount
IsSum(sum, old, amount) ==
    /\ IsCanonical(sum)
    /\ \A m \in Moduli : ValueMod(sum, m) = (ValueMod(old, m) + ValueMod(amount, m)) % m

\* the tally of proposal row p that support selects
Tally(p, support) ==
    CASE support = 1 -> p.VotesFor
      [] support = 0 -> p.VotesAgainst
      [] support = 2 -> p.VotesAbstain

MutableFields == {"Status", "VotesFor", "VotesAgainst", "VotesAbstain",
                  "ExecutionUnlock", "ExecutionTxHash"}

IdentityFields == {"ProposalKey", "ContractId", "ProposalId", "Proposer", "Title",
                   "Description", "Action", "VoteStart", "VoteEnd"}

\* rows p and q agree on every field outside the set fields
SameExcept(p, q, fields) ==
    /\ DOMAIN p = DOMAIN q
    /\ \A f \in DOMAIN p \ fields : p[f] = q[f]

\* table t2 is table t1 with the row of key k replaced or added, nothing else
OnlyRowChanged(t1, t2, k) ==
    /\ DOMAIN t2 = DOMAIN t1 \cup {k}
    /\ \A j \in DOMAIN t1 \ {k} : t2[j] = t1[j]


(***************************************************************************)
(* proposal_created                                                        *)
(***************************************************************************)
\* the row the claim describes for a proposal_created event
CreatedRow(e) ==
    [ProposalKey     |-> <<e.ContractId, "-", e.ProposalId>>,
     ContractId      |-> e.ContractId,
     ProposalId      |-> e.ProposalId,
     Proposer        |-> e.EventData.proposer,
     Status          |-> 0,
     Title           |-> e.EventData.title,
     Description     |-> e.EventData.desc,
     Action          |-> e.EventData.action,
     VoteStart       |-> e.EventData.vote_start,
     VoteEnd         |-> e.EventData.vote_end,
     VotesFor        |-> <<"0">>,
     VotesAgainst    |-> <<"0">>,
     VotesAbstain    |-> <<"0">>,
     ExecutionUnlock |-> 0,
     ExecutionTxHash |-> ""]

\* C7: in every reachable store, a proposal_created event with a decodable
\* payload for a key that has no Proposal returns nil, adds exactly the row
\* CreatedRow(e) under the key contract_id-proposal_id (Active, tallies "0",
\* execution_unlock 0, empty execution_tx_hash, the payload's proposer, title,
\* description, action, vote_start and vote_end), and touches no other
\* Proposal and no Vote.
C7_ProposalCreatedEffect ==
    \A e \in EventsOfType("proposal_created") :
        (~Exists(e) /\ e.EventData.json = "object") =>
            \A out \in {Applied(e)} :
                /\ out.err = NoError
                /\ OnlyRowChanged(proposals, out.proposals, KeyOf(e))
                /\ out.proposals[KeyOf(e)] = CreatedRow(e)
                /\ KeyOf(e) = <<e.ContractId, "-", e.ProposalId>>
                /\ out.votes = votes

\* a proposal_created call has just created the second Proposal of the store
C7_Witness ==
    /\ last.op = "ApplyEvent"
    /\ last.type = "proposal_created"
    /\ last.log = "Event applied successfully"
    /\ Cardinality(DOMAIN proposals) = 2
    /\ \E k \in DOMAIN proposals :
           /\ proposals[k].Status = 0
           /\ proposals[k].VotesFor = <<"0">>
           /\ proposals[k].Proposer = "GB"

\* C8: in every reachable store, a proposal_created event for a key that has
\* a Proposal returns an error and leaves the proposals and votes tables as
\* they are, whatever the payload, the status of the Proposal and the store
\* call that fails.
C8_ProposalCreatedExisting ==
    \A e \in EventsOfType("proposal_created"), fail \in FailPoints :
        Exists(e) =>
            \A out \in {ApplyEvent(Store, e, fail)} :
                /\ out.err # NoError
                /\ Untouched(out)

\* a proposal_created call has just been refused for a Proposal that is no
\* longer Active
C8_Witness ==
    /\ last.op = "ApplyEvent"
    /\ last.err = "proposal_created event for existing proposal"
    /\ \E k \in DOMAIN proposals : proposals[k].Status # 0


(***************************************************************************)
(* proposal_canceled and proposal_voting_closed                            *)
(***************************************************************************)
\* C9: in every reachable store, a proposal_canceled event for an existing
\* Proposal returns nil; if the Proposal is Active its status becomes 5 and
\* no other field, no other Proposal and no Vote changes; if it has any other
\* status nothing changes.
C9_ProposalCanceledTransition ==
    \A e \in EventsOfType("proposal_canceled") :
        Exists(e) =>
            \A out \in {Applied(e)}, p \in {Current(e)} :
                /\ out.err = NoError
                /\ out.votes = votes
                /\ IF p.Status = 0
                   THEN /\ OnlyRowChanged(proposals, out.proposals, KeyOf(e))
                        /\ out.proposals[KeyOf(e)].Status = 5
                        /\ SameExcept(out.proposals[KeyOf(e)], p, {"Status"})
                   ELSE out.proposals = proposals

\* a proposal_canceled call has just been skipped while the store holds a
\* Proposal that an earlier proposal_canceled call has canceled
C9_Witness ==
    /\ last.op = "ApplyEvent"
    /\ last.log = "proposal_canceled event for proposal not in active state"
    /\ \E k \in DOMAIN proposals : proposals[k].Status = 5

\* C10: in every reachable store, a proposal_voting_closed event with a
\* decodable payload for an existing Active Proposal returns nil and sets the
\* status to the payload's status, the three tallies to the payload's final
\* tallies (whatever they were) and execution_unlock to the payload's eta,
\* leaving execution_tx_hash, the identity fields, every other Proposal and
\* every Vote as they are; for an existing Proposal that is not Active it
\* returns nil and changes nothing, whatever the payload.
C10_ProposalVotingClosedTransition ==
    \A e \in EventsOfType("proposal_voting_closed") :
        Exists(e) =>
            \A out \in {Applied(e)}, p \in {Current(e)}, d \in {e.EventData} :
                IF p.Status # 0
                THEN out.err = NoError /\ Untouched(out)
                ELSE d.json = "object" =>
                        \A q \in {out.proposals[KeyOf(e)]} :
                            /\ out.err = NoError
                            /\ out.votes = votes
                            /\ OnlyRowChanged(proposals, out.proposals, KeyOf(e))
                            /\ q.Status = d.status
                            /\ q.VotesFor = d.final_votes.for
                            /\ q.VotesAgainst = d.final_votes.against
                            /\ q.VotesAbstain = d.final_votes.abstain
                            /\ q.ExecutionUnlock = d.eta
                            /\ SameExcept(q, p, MutableFields \ {"ExecutionTxHash"})
                            /\ \A f \in IdentityFields \cup {"ExecutionTxHash"} :
                                   q[f] = p[f]

\* a proposal_voting_closed call has just closed a Proposal that had a
\* counted vote for: the tally is the payload's, not the vote's amount
C10_Witness ==
    /\ last.op = "ApplyEvent"
    /\ last.type = "proposal_voting_closed"
    /\ last.log = "Event applied successfully"
    /\ \E k \in DOMAIN proposals :
           /\ proposals[k].Status = 1
           /\ proposals[k].VotesFor = <<"3">>
           /\ proposals[k].ExecutionUnlock = 7
           /\ \E t \in DOMAIN votes :
                  /\ <<votes[t].ContractId, "-", votes[t].ProposalId>> = k
                  /\ votes[t].Support = 1


(***************************************************************************)
(* vote_cast                                                               *)
(***************************************************************************)
\* the column of the tally that support selects
TallyField(support) ==
    CASE support = 1 -> "VotesFor"
      [] support = 0 -> "VotesAgainst"
      [] support = 2 -> "VotesAbstain"

\* the row the claim describes for a vote_cast event
VoteRow(e) ==
    [TxHash          |-> e.TxHash,
     ContractId      |-> e.ContractId,
     ProposalId      |-> e.ProposalId,
     Voter           |-> e.EventData.voter,
     Support         |-> e.EventData.support,
     Amount          |-> e.EventData.amount,
     LedgerSeq       |-> e.LedgerSeq,
     LedgerCloseTime |-> e.LedgerCloseTime]

\* C6: in every reachable store, a vote_cast event with support 0, 1 or 2
\* and a decimal amount, for an Active Proposal and a transaction that has no
\* Vote, returns nil; the tally that support selects becomes the decimal
\* string of the integer old tally + amount (2^64 and beyond included), every
\* other field of the Proposal and every other Proposal stay as they are, and
\* the votes table gains exactly the row VoteRow(e) under the key tx_hash.
C6_VoteCastEffect ==
    \A e \in EventsOfType("vote_cast") :
        LET d == e.EventData
        IN  ( /\ Exists(e)
              /\ Current(e).Status = 0
              /\ d.json = "object"
              /\ d.support \in {0, 1, 2}
              /\ IsDecimal(d.amount)
              /\ e.TxHash \notin DOMAIN votes ) =>
                \A out \in {Applied(e)}, p \in {Current(e)} :
                \A q \in {out.proposals[KeyOf(e)]} :
                    /\ out.err = NoError
                    /\ OnlyRowChanged(proposals, out.proposals, KeyOf(e))
                    /\ IsSum(Tally(q, d.support), Tally(p, d.support), d.amount)
                    /\ SameExcept(q, p, {TallyField(d.support)})
                    /\ OnlyRowChanged(votes, out.votes, e.TxHash)
                    /\ e.TxHash \notin DOMAIN votes
                    /\ out.votes[e.TxHash] = VoteRow(e)

\* "36893488147419103230": 2^65 - 2, the sum of two votes of 2^64 - 1
TwiceAmount2 ==
    <<"3","6","8","9","3","4","8","8","1","4","7","4","1","9","1","0","3","2","3","0">>

\* a vote_cast call has just counted the second of two votes of 2^64 - 1 for
\* an Active Proposal, whose tally for is now above 2^64
C6_Witness ==
    /\ last.op = "ApplyEvent"
    /\ last.type = "vote_cast"
    /\ last.log = "Event applied successfully"
    /\ DOMAIN votes = {"ta", "tb"}
    /\ \E k \in DOMAIN proposals :
           /\ proposals[k].Status = 0
           /\ proposals[k].VotesFor = TwiceAmount2
           /\ proposals[k].VotesAgainst = <<"0">>
           /\ proposals[k].VotesAbstain = <<"0">>

\* C3 as stated: in every reachable store, a vote_cast event whose tx_hash is
\* the key of a stored Vote returns nil and changes no Proposal and no Vote.
C3_DuplicateVoteCastReturnsSuccess ==
    \A e \in EventsOfType("vote_cast") :
        e.TxHash \in DOMAIN votes =>
            \A out \in {Applied(e)} : out.err = NoError /\ Untouched(out)

\* C3, amended: in every reachable store, a vote_cast event whose tx_hash is
\* the key of a stored Vote changes no Proposal and no Vote, whichever store
\* call fails; when no store call fails it returns nil if a Proposal exists
\* for its key that is not Active, or that is Active with a decodable
\* payload, and it returns an error if no Proposal exists for its key or the
\* Proposal is Active and the payload is not decodable.
C3_DuplicateVoteCast ==
    \A e \in EventsOfType("vote_cast") :
        e.TxHash \in DOMAIN votes =>
            /\ \A fail \in FailPoints :
                   \A out \in {ApplyEvent(Store, e, fail)} : Untouched(out)
            /\ Applied(e).err =
                 IF ~Exists(e) THEN "vote_cast event for non-existing proposal"
                 ELSE IF Current(e).Status = 0 /\ e.EventData.json # "object"
                 THEN "unable to unmarshal vote_cast event data"
                 ELSE NoError

\* a vote_cast call has just found the Vote of its transaction in the store
C3_Witness ==
    /\ last.op = "ApplyEvent"
    /\ last.type = "vote_cast"
    /\ last.err = NoError
    /\ last.log = "vote_cast event already applied"
    /\ votes # EmptyTable


(***************************************************************************)
(* Tallies and votes; re-application                                       *)
(***************************************************************************)
\* the transactions of the stored Votes of proposal k with the given support
VotesOf(k, support) ==
    {t \in DOMAIN votes :
        /\ <<votes[t].ContractId, "-", votes[t].ProposalId>> = k
        /\ votes[t].Support = support}

\* the residue modulo m of the sum of the amounts of the Votes of txs
RECURSIVE SumMod(_, _)
SumMod(txs, m) ==
    IF txs = {} THEN 0
    ELSE LET t == CHOOSE x \in txs : TRUE
         IN  (ValueMod(votes[t].Amount, m) + SumMod(txs \ {t}, m)) % m

\* C2 as stated: in every state between ApplyEvent calls, store failures
\* included, each tally of a Proposal to which no proposal_voting_closed has
\* been applied is the canonical decimal string of the sum of the amounts of
\* the stored Votes of that Proposal with the matching support.
C2_TalliesAreSumsOfVotes ==
    \A k \in DOMAIN proposals \ votingClosed :
        \A support \in {0, 1, 2} :
            /\ IsCanonical(Tally(proposals[k], support))
            /\ \A m \in Moduli :
                   ValueMod(Tally(proposals[k], support), m) = SumMod(VotesOf(k, support), m)

\* C1 as stated: in every reachable store, applying again an event whose
\* earlier call returned nil leaves the proposals and votes tables as they
\* are.
C1_ReapplicationChangesNothing ==
    \A e \in succeeded :
        \A out \in {Applied(e)} : Untouched(out)


(***************************************************************************)
(* Replay of a ledger                                                      *)
(***************************************************************************)
\* C4 as stated: a pass of ApplyLedger without a failure of the store over a
\* ledger that earlier passes processed without a failure of the store
\* leaves the history, proposals and votes tables as they are.
C4_LedgerReplayIsNoOp ==
    [][ ( /\ pc = "apply"
          /\ pc' = "checkpoint"
          /\ seq \in clean
          /\ ~last'.storeFailed )
        => UNCHANGED <<history, proposals, votes>> ]_vars


(***************************************************************************)
(* Replay of the history table                                             *)
(***************************************************************************)
\* the store after ApplyEvent has been given the rows of h with the ids of
\* ids, in ascending order of the ids
RECURSIVE Replay(_, _, _)
Replay(st, h, ids) ==
    IF ids = {} THEN st
    ELSE LET first == CHOOSE i \in ids : \A j \in ids : i <= j
             out   == ApplyEvent(st, h[first], "none")
         IN  Replay([history |-> out.history, proposals |-> out.proposals,
                     votes |-> out.votes],
                    h, ids \ {first})

\* C5 as stated: after calls of ApplyEvent without a failure of the store,
\* events arriving with ascending ids and re-deliveries allowed, giving the
\* rows of the history table in ascending order of event id to ApplyEvent
\* over an empty store yields the proposals and votes tables of the store.
C5_HistoryReplayYieldsTables ==
    \A replayed \in {Replay([history |-> EmptyTable, proposals |-> EmptyTable,
                             votes |-> EmptyTable], history, DOMAIN history)} :
        /\ replayed.proposals = proposals
        /\ replayed.votes = votes


(***************************************************************************)
(* proposal_executed                                                       *)
(***************************************************************************)
\* C11: in every reachable store, a proposal_executed event for an existing
\* Proposal returns nil; if the Proposal is not Executed its status becomes
\* 4 and its execution_tx_hash the event's tx_hash, and the tallies,
\* execution_unlock, the identity fields, every other Proposal and every
\* Vote stay as they are; if it is Executed nothing changes, so the
\* recorded execution_tx_hash is kept whatever the event's tx_hash.
C11_ProposalExecutedTransition ==
    \A e \in EventsOfType("proposal_executed") :
        Exists(e) =>
            \A out \in {Applied(e)}, p \in {Current(e)} :
                /\ out.err = NoError
                /\ out.votes = votes
                /\ IF p.Status # 4
                   THEN \A q \in {out.proposals[KeyOf(e)]} :
                            /\ OnlyRowChanged(proposals, out.proposals, KeyOf(e))
                            /\ q.Status = 4
                            /\ q.ExecutionTxHash = e.TxHash
                            /\ SameExcept(q, p, {"Status", "ExecutionTxHash"})
                            /\ q.VotesFor = p.VotesFor
                            /\ q.VotesAgainst = p.VotesAgainst
                            /\ q.VotesAbstain = p.VotesAbstain
                            /\ q.ExecutionUnlock = p.ExecutionUnlock
                   ELSE /\ out.proposals = proposals
                        /\ out.proposals[KeyOf(e)].ExecutionTxHash = p.ExecutionTxHash

\* a proposal_executed call has just been skipped while the store holds a
\* Proposal that an earlier proposal_executed call has executed, with the
\* hash of that call's transaction
C11_Witness ==
    /\ last.op = "ApplyEvent"
    /\ last.type = "proposal_executed"
    /\ last.err = NoError
    /\ last.log = "proposal_executed event for proposal that has already been executed"
    /\ \E k \in DOMAIN proposals :
           /\ proposals[k].Status = 4
           /\ proposals[k].ExecutionTxHash \in TxHashes("proposal_executed")


(***************************************************************************)
(* proposal_expired                                                        *)
(***************************************************************************)
\* C12: in every reachable store, a proposal_expired event for an existing
\* Proposal returns nil; if the Proposal is Active (0) or Successful (1) its
\* status becomes 3 and no other field, no other Proposal and no Vote
\* changes; if it has any other status nothing changes.
C12_ProposalExpiredTransition ==
    \A e \in EventsOfType("proposal_expired") :
        Exists(e) =>
            \A out \in {Applied(e)}, p \in {Current(e)} :
                /\ out.err = NoError
                /\ out.votes = votes
                /\ IF p.Status \in {0, 1}
                   THEN /\ OnlyRowChanged(proposals, out.proposals, KeyOf(e))
                        /\ out.proposals[KeyOf(e)].Status = 3
                        /\ SameExcept(out.proposals[KeyOf(e)], p, {"Status"})
                   ELSE out.proposals = proposals

\* a proposal_expired call has just expired a Proposal that a
\* proposal_voting_closed call had made Successful: the eta it stored is kept
C12_Witness ==
    /\ last.op = "ApplyEvent"
    /\ last.type = "proposal_expired"
    /\ last.log = "Event applied successfully"
    /\ \E k \in DOMAIN proposals :
           /\ proposals[k].Status = 3
           /\ proposals[k].ExecutionUnlock # 0
           /\ k \in votingClosed


(***************************************************************************)
(* vote_cast after the proposal has left Active                            *)
(***************************************************************************)
\* C13: in every reachable store, a vote_cast event for an existing
\* Proposal whose status is not Active (0) returns nil when no store call
\* fails, and whichever store call fails it leaves every Proposal row (so
\* every tally) and the votes table as they are, whatever the payload.
C13_VoteCastNotActive ==
    \A e \in EventsOfType("vote_cast") :
        (Exists(e) /\ Current(e).Status # 0) =>
            /\ Applied(e).err = NoError
            /\ \A fail \in FailPoints :
                   \A out \in {ApplyEvent(Store, e, fail)} : Untouched(out)

\* a vote_cast call has just been skipped for a Proposal that has left
\* Active: no Vote is stored and the tallies are those the Proposal had
C13_Witness ==
    /\ last.op = "ApplyEvent"
    /\ last.type = "vote_cast"
    /\ last.err = NoError
    /\ last.log = "vote_cast event for proposal not in active state"
    /\ \E k \in DOMAIN proposals : proposals[k].Status # 0
    /\ votes = EmptyTable


(***************************************************************************)
(* Events for a proposal that does not exist                               *)
(***************************************************************************)
\* the event types that need an existing proposal
LaterEventTypes == {"proposal_canceled", "proposal_voting_closed",
                    "proposal_executed", "proposal_expired", "vote_cast"}

\* the error ApplyEvent returns for an event of type t whose proposal does
\* not exist
MissingProposalError(t) ==
    CASE t = "proposal_canceled"      -> "proposal_canceled event for non-existing proposal"
      [] t = "proposal_voting_closed" -> "proposal_voting_closed event for non-existing proposal"
      [] t = "proposal_executed"      -> "proposal_executed event for non-existing proposal"
      [] t = "proposal_expired"       -> "proposal_expired event for non-existing proposal"
      [] t = "vote_cast"              -> "vote_cast event for non-existing proposal"

\* C14: in every reachable store, an event of type proposal_canceled,
\* proposal_voting_closed, proposal_executed, proposal_expired or vote_cast
\* whose (contract_id, proposal_id) has no Proposal returns the error of a
\* missing proposal (an error of the store when a store call fails) and
\* leaves the proposals and votes tables as they are, so the key still has
\* no Proposal; and every call of ApplyEvent that adds a key to the
\* proposals table is a call for a proposal_created event.
C14_MissingProposal ==
    /\ [](\A t \in LaterEventTypes :
             \A e \in EventsOfType(t) :
                 ~Exists(e) =>
                     /\ Applied(e).err = MissingProposalError(t)
                     /\ \A fail \in FailPoints :
                            \A out \in {ApplyEvent(Store, e, fail)} :
                                /\ out.err # NoError
                                /\ KeyOf(e) \notin DOMAIN out.proposals
                                /\ Untouched(out))
    /\ [][ DOMAIN proposals' # DOMAIN proposals =>
               (last'.op = "ApplyEvent" /\ last'.type = "proposal_created") ]_vars

\* a call for a proposal that does not exist has just returned the error of
\* a missing proposal while the store holds another Proposal and its votes
C14_Witness ==
    /\ last.op = "ApplyEvent"
    /\ last.type \in LaterEventTypes
    /\ last.err = MissingProposalError(last.type)
    /\ Cardinality(DOMAIN proposals) = 1
    /\ votes # EmptyTable


(***************************************************************************)
(* The history insert comes first                                          *)
(***************************************************************************)
\* C15: in every reachable store, for every event with an event_id the
\* history does not hold yet and every store call that may fail: when the
\* history insert fails ApplyEvent returns its error and has changed no
\* table; otherwise, whether ApplyEvent returns nil, an application error
\* or the error of a later store call, the history holds the event under
\* its event_id after the call.  So a call that changed the proposals or
\* the votes table has stored its event in the history.
C15_HistoryWrittenFirst ==
    \A g \in GovernorEvents, fail \in FailPoints :
        \A e \in {[g EXCEPT !.EventId = NextEventId]} :
            \A out \in {ApplyEvent(Store, e, fail)} :
                /\ IF fail = "InsertEvent"
                   THEN /\ out.err = "failed to insert event into history"
                        /\ out.history = history
                        /\ Untouched(out)
                   ELSE /\ e.EventId \in DOMAIN out.history
                        /\ out.history[e.EventId] = e
                /\ ~Untouched(out) => e.EventId \in DOMAIN out.history

\* a call has just returned an application error, has changed no Proposal
\* and no Vote, and the history holds its event
C15_Witness ==
    /\ last.op = "ApplyEvent"
    /\ last.type = "proposal_expired"
    /\ last.err = "proposal_expired event for non-existing proposal"
    /\ proposals = EmptyTable
    /\ \E id \in DOMAIN history : history[id].EventType = "proposal_expired"


(***************************************************************************)
(* The history table is append-only                                        *)
(***************************************************************************)
\* C16: in every reachable store, InsertEvent with an event whose event_id
\* is stored, whatever its contract, proposal, type, payload or tx_hash,
\* leaves the history table as it is (the statement is ON CONFLICT DO
\* NOTHING: no error comes from the conflict); and no step removes a
\* history row or changes one.
C16_HistoryAppendOnly ==
    /\ [](\A e \in GovernorEvents :
             e.EventId \in DOMAIN history => InsertEvent(history, e) = history)
    /\ [][ \A id \in DOMAIN history :
               id \in DOMAIN history' /\ history'[id] = history[id] ]_vars

\* a call for an event of another type than the stored event of the same
\* event_id has just been applied: the history row is still the first event
C16_Witness ==
    /\ last.op = "ApplyEvent"
    /\ last.log = "Event applied successfully"
    /\ \E id \in DOMAIN history :
           /\ history[id].EventType = "proposal_created"
           /\ last.type = "proposal_executed"
    /\ Cardinality(DOMAIN history) = 1


(***************************************************************************)
(* Identity fields of a Proposal                                           *)
(***************************************************************************)
\* Proposal values with the stored key k: what proposal_created events for
\* k build, with the mutable fields set to other values
UpsertArguments(k) ==
    {[NewProposalFromProposalCreatedEvent(e).proposal EXCEPT
         !.Status = 4, !.VotesFor = Amount1, !.VotesAgainst = Amount2,
         !.VotesAbstain = <<"7">>, !.ExecutionUnlock = 9, !.ExecutionTxHash = "tb"] :
       e \in {g \in EventsOfType("proposal_created") :
                 KeyOf(g) = k /\ NewProposalFromProposalCreatedEvent(g).ok}}

\* C17: in every reachable store, UpsertProposal with a Proposal value of a
\* stored key, whatever its other fields, changes no other row, leaves the
\* nine identity fields of the stored row as they are and sets status, the
\* three tallies, execution_unlock and execution_tx_hash to the value's; and
\* no step removes a Proposal or changes an identity field of one.
C17_IdentityFieldsImmutable ==
    /\ [](\A k \in DOMAIN proposals :
             \A p \in UpsertArguments(k) :
                 \A ps \in {UpsertProposal(proposals, p)} :
                     /\ OnlyRowChanged(proposals, ps, k)
                     /\ DOMAIN ps = DOMAIN proposals
                     /\ \A f \in IdentityFields : ps[k][f] = proposals[k][f]
                     /\ \A f \in MutableFields : ps[k][f] = p[f]
                     /\ SameExcept(ps[k], proposals[k], MutableFields))
    /\ [][ \A k \in DOMAIN proposals :
               /\ k \in DOMAIN proposals'
               /\ \A f \in IdentityFields : proposals'[k][f] = proposals[k][f]
               /\ SameExcept(proposals'[k], proposals[k], MutableFields) ]_vars

\* a proposal_executed call has just updated the Proposal that the
\* proposal_created event of proposer GB created: it is Executed and still
\* has the proposer, title and vote_start of its creation
C17_Witness ==
    /\ last.op = "ApplyEvent"
    /\ last.type = "proposal_executed"
    /\ last.log = "Event applied successfully"
    /\ \E k \in DOMAIN proposals :
           /\ proposals[k].Status = 4
           /\ proposals[k].Proposer = "GB"
           /\ proposals[k].Title = "T2"
           /\ proposals[k].VoteStart = 11


(***************************************************************************)
(* Votes are immutable                                                     *)
(***************************************************************************)
\* Vote values with the stored tx_hash tx: what vote_cast events of the
\* transaction build
InsertVoteArguments(tx) ==
    {NewVoteFromVoteCastEvent(e).vote :
       e \in {g \in EventsOfType("vote_cast") :
                 g.TxHash = tx /\ NewVoteFromVoteCastEvent(g).ok}}

\* C18: in every reachable store, InsertVote with a Vote value of a stored
\* tx_hash, whatever its other fields, leaves the votes table as it is (the
\* statement is ON CONFLICT DO NOTHING: no error comes from the conflict);
\* and no step removes a Vote row or changes one.
C18_VotesImmutable ==
    /\ [](\A tx \in DOMAIN votes :
             /\ \E v \in InsertVoteArguments(tx) : v # votes[tx]
             /\ \A v \in InsertVoteArguments(tx) : InsertVote(votes, v) = votes)
    /\ [][ \A tx \in DOMAIN votes :
               tx \in DOMAIN votes' /\ votes'[tx] = votes[tx] ]_vars

\* a second vote_cast call has just been counted: the store holds the Vote
\* rows of two transactions
C18_Witness ==
    /\ last.op = "ApplyEvent"
    /\ last.type = "vote_cast"
    /\ last.log = "Event applied successfully"
    /\ Cardinality(DOMAIN votes) = 2


(***************************************************************************)
(* The checkpoint                                                          *)
(***************************************************************************)
\* ApplyLedger reads every transaction of the ledger: no txReader.Read()
\* returns an error other than io.EOF
FullyScanned(ledger) ==
    \A i \in 1..Len(ledger.Txs) : ledger.Txs[i].Readable

\* C19 as stated: the checkpoint is the sequence of a ledger only if
\* ApplyLedger has read and scanned every transaction of that ledger; it is
\* not set to N when reading a transaction of N fails.
C19_CheckpointOnlyAfterFullScan ==
    \A N \in DOMAIN chain :
        GetLedgerSeq(status, "indexer") = N => FullyScanned(chain[N])


\* the number of calls of ApplyEvent in a pass of ApplyLedger over ledger
\* seq of the chain
CallsInPass ==
    ApplyLedger(Store, chain[seq], seq, [at |-> 0, call |-> "none"]).calls

\* C20 as stated: events of a ledger that failed are not applied again once
\* the checkpoint has been set to their ledger.  No Proposal exists before
\* or after the pass, so every call of ApplyEvent in it, and in every
\* earlier pass over the ledger, has returned an error.
C20_FailedEventsNotRetried ==
    [][ ( /\ pc = "apply"
          /\ last'.op = "ApplyLedger"
          /\ seq <= GetLedgerSeq(status, "indexer")
          /\ proposals = EmptyTable
          /\ proposals' = EmptyTable )
        => CallsInPass = 0 ]_vars

\* C20: every pass of ApplyLedger is followed by the write of the
\* checkpoint, whatever the pass returned; a write that succeeds sets the
\* checkpoint to the sequence of the ledger just processed, also after a
\* pass in which ApplyEvent returned an error of the store, and a write that
\* fails leaves the checkpoint as it was; either way the loop goes on with
\* the next sequence.  No pass processes a ledger below the checkpoint.
C20_CheckpointIndependentOfOutcomes ==
    /\ [][ last'.op = "ApplyLedger" => pc' = "checkpoint" ]_vars
    /\ [][ (pc = "checkpoint" /\ last'.op = "UpsertStatus") =>
               /\ seq' = seq + 1
               /\ IF last'.ok
                  THEN GetLedgerSeq(status', "indexer") = seq
                  ELSE status' = status ]_vars
    /\ [][ last'.op = "ApplyLedger" => seq >= GetLedgerSeq(status, "indexer") ]_vars

\* the checkpoint has just been set to a ledger in whose pass a call of
\* ApplyEvent returned an error of the store
C20_Witness ==
    /\ last.op = "UpsertStatus"
    /\ last.ok
    /\ GetLedgerSeq(status, "indexer") = seq - 1
    /\ seq - 1 \in DOMAIN chain
    /\ seq - 1 \notin clean
    /\ EventCount(chain[seq - 1].Txs) > 0


(***************************************************************************)
(* vote_cast validation                                                    *)
(***************************************************************************)
\* a decoded vote_cast payload that the validation rejects: a support other
\* than 0, 1, 2 or an amount that is not a decimal integer
InvalidVote(d) ==
    d.json = "object" /\ (d.support \notin {0, 1, 2} \/ ~IsDecimal(d.amount))

\* C27 as stated: in every reachable store, a vote_cast event for an Active
\* Proposal whose support is not 0, 1 or 2 or whose amount is not a decimal
\* integer returns an error.
C27_InvalidVoteCastReturnsError ==
    \A e \in EventsOfType("vote_cast") :
        (Exists(e) /\ Current(e).Status = 0 /\ InvalidVote(e.EventData)) =>
            Applied(e).err # NoError

\* C27: in every reachable store, a vote_cast event for an Active Proposal
\* whose support is not 0, 1 or 2 or whose amount is not a decimal integer
\* leaves the proposals and votes tables as they are, whichever store call
\* fails; it returns an error ("invalid amount string" before "invalid
\* support value") when no Vote is stored for its tx_hash, and nil when a
\* Vote is stored for its tx_hash.
C27_InvalidVoteCast ==
    \A e \in EventsOfType("vote_cast") :
        (Exists(e) /\ Current(e).Status = 0 /\ InvalidVote(e.EventData)) =>
            /\ \A fail \in FailPoints :
                   \A out \in {ApplyEvent(Store, e, fail)} : Untouched(out)
            /\ \A out \in {Applied(e)} :
                   /\ e.EventId \in DOMAIN out.history
                   /\ out.err = IF e.TxHash \in DOMAIN votes THEN NoError
                                ELSE IF ~IsDecimal(e.EventData.amount)
                                THEN "invalid amount string"
                                ELSE "invalid support value"

\* a vote_cast call for an Active Proposal has just returned the error of an
\* invalid support value: the tallies are "0" and no Vote is stored
C27_Witness ==
    /\ last.op = "ApplyEvent"
    /\ last.type = "vote_cast"
    /\ last.err = "invalid support value"
    /\ votes = EmptyTable
    /\ \E k \in DOMAIN proposals :
           /\ proposals[k].Status = 0
           /\ proposals[k].VotesAbstain = <<"0">>


(***************************************************************************)
(* Events of an unknown type                                               *)
(***************************************************************************)
\* C28: in every reachable store, an event whose type is none of the six
\* kinds returns "invalid event type" when no store call fails, and
\* whichever store call fails it returns an error and leaves the proposals
\* and votes tables as they are, whether or not a Proposal exists for its
\* key.
C28_InvalidEventType ==
    \A e \in EventsOfType("transfer") :
        /\ Applied(e).err = "invalid event type"
        /\ \A fail \in FailPoints :
               \A out \in {ApplyEvent(Store, e, fail)} :
                   out.err # NoError /\ Untouched(out)

\* a call for an event of an unknown type has just returned "invalid event
\* type" while a Proposal exists for its key
C28_Witness ==
    /\ last.op = "ApplyEvent"
    /\ last.type = "transfer"
    /\ last.err = "invalid event type"
    /\ proposals # EmptyTable
    /\ \E id \in DOMAIN history : KeyOf(history[id]) \in DOMAIN proposals


(***************************************************************************)
(* Payloads a contract can emit that the handlers do not validate: the     *)
(* amount of a vote_cast and the final tallies of a proposal_voting_closed *)
(* are signed 128-bit integers, the status of a proposal_voting_closed is  *)
(* any unsigned 32-bit integer                                             *)
(***************************************************************************)
NegAmount == <<"-", "5">>

UnknownStatus == 7

SignedPayloads(eventType) ==
    CASE eventType = "vote_cast" ->
           {VoteCastPayload(s, NegAmount) : s \in {0, 1, 2}}
      [] eventType = "proposal_voting_closed" ->
           {[json |-> "object", status |-> st, eta |-> 7,
             final_votes |-> [json |-> "object", for |-> <<"-", "3">>,
                              against |-> <<"1">>, abstain |-> <<"0">>]] :
              st \in {1, 4, UnknownStatus}}

SignedEvents ==
    UNION {[EventId : EventIds, ContractId : ContractIds, ProposalId : ProposalIds,
            EventType : {t}, EventData : SignedPayloads(t), TxHash : TxHashes(t),
            LedgerSeq : {100}, LedgerCloseTime : {1000}] :
           t \in {"vote_cast", "proposal_voting_closed"}}

NextSigned == \E govEvent \in GovernorEvents \cup SignedEvents, fail \in FailPoints :
                  DoApplyEvent(govEvent, fail)

SpecSigned == Init /\ [][NextSigned]_vars

\* the decimal string s denotes an integer >= 0
NonNegative(s) == IsDecimal(s) /\ s[1] # "-"

\* C25 as stated: in every reachable store the three tallies of every
\* Proposal and the amount of every Vote denote integers >= 0, also after
\* vote_cast events with a negative amount and proposal_voting_closed events
\* with negative final tallies.
C25_TalliesNonNegative ==
    /\ \A k \in DOMAIN proposals :
           /\ NonNegative(proposals[k].VotesFor)
           /\ NonNegative(proposals[k].VotesAgainst)
           /\ NonNegative(proposals[k].VotesAbstain)
    /\ \A tx \in DOMAIN votes : NonNegative(votes[tx].Amount)

\* C26 as stated: in every reachable store the status of every Proposal is
\* one of 0 .. 5, whatever status the proposal_voting_closed events carry.
C26_StatusInEnum ==
    \A k \in DOMAIN proposals : proposals[k].Status \in 0..5


(***************************************************************************)
(* The scan of a ledger                                                    *)
(***************************************************************************)
\* a transaction that passes the three filters of the loop
Eligible(tx) == tx.Successful /\ tx.Op0Ok /\ tx.Op0 = "InvokeHostFunction"

\* the transactions of a ledger that are read: those before the first one
\* the reader cannot read
RECURSIVE ReadPrefix(_, _)
ReadPrefix(txs, txIndex) ==
    IF txIndex > Len(txs) \/ ~txs[txIndex].Readable THEN txIndex - 1
    ELSE ReadPrefix(txs, txIndex + 1)

\* what the decoder returns for the events of the eligible transactions from
\* index txIndex on whose events can be extracted, in transaction order and
\* then in the order of the event index
RECURSIVE EmissionOrder(_, _, _)
EmissionOrder(ledger, ledgerSeq, txIndex) ==
    IF txIndex > ReadPrefix(ledger.Txs, 1) THEN <<>>
    ELSE LET tx == ledger.Txs[txIndex]
         IN  (IF Eligible(tx) /\ ~tx.EventsError
              THEN [i \in 1..Len(tx.Events) |->
                        NewGovernorEventFromContractEvent(
                            tx.Events[i], TxHash(ledgerSeq, txIndex), ledgerSeq,
                            ledger.CloseTime, txIndex, i - 1)]
              ELSE <<>>)
             \o EmissionOrder(ledger, ledgerSeq, txIndex + 1)

\* the events of a ledger that decode, in emission order
DecodedInOrder(ledger, ledgerSeq) ==
    LET ok == SelectSeq(EmissionOrder(ledger, ledgerSeq, 1), LAMBDA r : r.ok)
    IN  [i \in 1..Len(ok) |-> ok[i].event]

\* ApplyEvent called for events[i], events[i + 1], ... one after the other,
\* each call on the store the call before has left
RECURSIVE ApplyInOrder(_, _, _, _)
ApplyInOrder(st, events, i, fail) ==
    IF i > Len(events) THEN st
    ELSE LET out == ApplyEvent(st, events[i], IF fail.at = i THEN fail.call ELSE "none")
         IN  ApplyInOrder([history |-> out.history, proposals |-> out.proposals,
                           votes |-> out.votes],
                          events, i + 1, fail)

\* C21: a pass of ApplyLedger is made at the sequence the loop is at and is
\* followed by the write of the checkpoint, the write of the checkpoint
\* moves the loop to the next sequence, and nothing but it and a start of
\* main changes the sequence, so that within a run the ledgers are
\* processed one at a time in the order N, N + 1, N + 2, ...; a pass leaves
\* the store as the calls of ApplyEvent for the decoded events of the
\* ledger leave it when they are made one after the other in emission
\* order (transaction order, then event index), each on the store the call
\* before has left.
C21_StrictOrdering ==
    /\ [][ last'.op = "ApplyLedger" =>
               /\ pc = "apply" /\ pc' = "checkpoint" /\ seq' = seq
               /\ \E fail \in LedgerFailures :
                      Store' = ApplyInOrder(Store, DecodedInOrder(chain'[seq], seq), 1, fail)
         ]_vars
    /\ [][ last'.op = "UpsertStatus" =>
               pc = "checkpoint" /\ pc' = "apply" /\ seq' = seq + 1 ]_vars
    /\ [][ seq' # seq => last'.op \in {"UpsertStatus", "main"} ]_vars

\* a pass over a ledger that emits vote_cast for proposal 1 before
\* proposal_created for it: the vote is not counted
C21_Witness ==
    /\ last.op = "ApplyLedger"
    /\ pc = "checkpoint"
    /\ LET events == DecodedInOrder(chain[seq], seq)
       IN  /\ Len(events) = 2
           /\ events[1].EventType = "vote_cast"
           /\ events[2].EventType = "proposal_created"
           /\ KeyOf(events[2]) \in DOMAIN proposals
           /\ proposals[KeyOf(events[2])].VotesFor = <<"0">>
           /\ votes = EmptyTable
           /\ DOMAIN history = {events[1].EventId, events[2].EventId}

\* C22: in a pass over a ledger whose transactions can all be read,
\* ApplyEvent is called once for every event of an eligible transaction
\* that decodes, whichever store call fails and whatever the calls before
\* returned, and ApplyLedger returns no error; after the pass the history
\* holds a row for every one of these events but the one whose InsertEvent
\* failed.
C22_FailuresDoNotStopScan ==
    [][ (last'.op = "ApplyLedger" /\ FullyScanned(chain'[seq])) =>
            LET events == DecodedInOrder(chain'[seq], seq)
            IN  /\ \A fail \in LedgerFailures :
                       LET out == ApplyLedger(Store, chain'[seq], seq, fail)
                       IN  /\ out.err = NoError
                           /\ out.calls = Len(events)
                           /\ \A i \in 1..Len(events) :
                                  \/ events[i].EventId \in DOMAIN out.st.history
                                  \/ fail = [at |-> i, call |-> "InsertEvent"]
                /\ \A i \in 2..Len(events) : events[i].EventId \in DOMAIN history'
      ]_vars

\* a pass in which the first call of ApplyEvent returned an error of the
\* store and the second event is in the history
C22_Witness ==
    /\ last.op = "ApplyLedger"
    /\ last.storeFailed
    /\ FullyScanned(chain[seq])
    /\ LET events == DecodedInOrder(chain[seq], seq)
       IN  /\ Len(events) = 2
           /\ events[1].EventId \notin DOMAIN history
           /\ events[2].EventId \in DOMAIN history

\* C23: every row of the history is of an event of a transaction that is
\* successful and whose first operation exists and invokes a contract; a
\* pass over a ledger none of whose transactions is one leaves the three
\* tables as they are and calls ApplyEvent for no event; the count a pass
\* returns is the number of transactions read, whether they pass the
\* filters or not.
C23_TransactionFilter ==
    /\ [](\A id \in DOMAIN history :
             LET h == history[id].TxHash
             IN  /\ h[2] \in DOMAIN chain
                 /\ h[3] \in DOMAIN chain[h[2]].Txs
                 /\ Eligible(chain[h[2]].Txs[h[3]]))
    /\ [][ last'.op = "ApplyLedger" =>
               LET ledger == chain'[seq]
                   out    == ApplyLedger(Store, ledger, seq, [at |-> 0, call |-> "none"])
               IN  /\ out.txCount = ReadPrefix(ledger.Txs, 1)
                   /\ (\A i \in DOMAIN ledger.Txs : ~Eligible(ledger.Txs[i])) =>
                          /\ out.calls = 0
                          /\ UNCHANGED <<history, proposals, votes>>
         ]_vars

\* a pass over a ledger with a transaction that is not successful and
\* emits proposal_created, after which no Proposal exists, and a pass over
\* a ledger with such a transaction and an eligible one
C23_Witness ==
    /\ last.op = "ApplyLedger"
    /\ \E i \in DOMAIN chain[seq].Txs :
           /\ ~chain[seq].Txs[i].Successful
           /\ chain[seq].Txs[i].Events = <<ProposalCreatedContractEvent>>
    /\ proposals = EmptyTable
    /\ history = EmptyTable
    /\ FullyScanned(chain[seq])
    /\ Len(chain[seq].Txs) = 2


(***************************************************************************)
(* The single writer                                                       *)
(***************************************************************************)
\* the sum of the amounts of the Votes of the transactions txs whose
\* support is support, as a decimal string
RECURSIVE SumOfVotes(_, _)
SumOfVotes(txs, support) ==
    IF txs = {} THEN SetString(<<"0">>)
    ELSE LET tx   == CHOOSE t \in txs : TRUE
             rest == SumOfVotes(txs \ {tx}, support)
         IN  IF votes[tx].Support = support
             THEN BigAdd(rest, SetString(votes[tx].Amount))
             ELSE rest

AllDone == \A w \in Workers : workers[w].pc = "done"

Overlapped == \E w \in Workers : workers[w].concurrent

\* C24: when the two calls were made one after the other, then after both
\* have returned each tally of the Proposal is the sum of the amounts of
\* the Votes stored with that support: no amount is lost.
C24_SerialCallsLoseNoVote ==
    (AllDone /\ ~Overlapped) =>
        LET p == proposals[KeyOf(ConcurrentProposalCreated)]
        IN  /\ DOMAIN votes = {"ta", "tb"}
            /\ \A s \in {0, 1, 2} :
                   Tally(p, s) = BigString(SumOfVotes(DOMAIN votes, s))

\* both calls have returned, they overlapped, both Vote rows exist with the
\* same support, and the tally of that support is the amount of one of them
C24_Witness ==
    /\ AllDone
    /\ Overlapped
    /\ DOMAIN votes = {"ta", "tb"}
    /\ votes["ta"].Support = votes["tb"].Support
    /\ LET p == proposals[KeyOf(ConcurrentProposalCreated)]
       IN  /\ Tally(p, votes["ta"].Support) = votes["tb"].Amount
           /\ Tally(p, votes["ta"].Support)
                # BigString(SumOfVotes(DOMAIN votes, votes["ta"].Support))


(***************************************************************************)
(* Event ids                                                               *)
(***************************************************************************)
\* the order of the characters of an id in a string comparison: "-" comes
\* before the digits
CharOrd(c) == IF c = "-" THEN 0 ELSE DigitVal(c) + 1

\* string a is smaller than string b
RECURSIVE StringLess(_, _)
StringLess(a, b) ==
    IF b = <<>> THEN FALSE
    ELSE IF a = <<>> THEN TRUE
    ELSE IF Head(a) # Head(b) THEN CharOrd(Head(a)) < CharOrd(Head(b))
    ELSE StringLess(Tail(a), Tail(b))

\* tuple a is smaller than tuple b, the first component weighing most
RECURSIVE TupleLess(_, _)
TupleLess(a, b) ==
    IF a = <<>> THEN FALSE
    ELSE IF Head(a) # Head(b) THEN Head(a) < Head(b)
    ELSE TupleLess(Tail(a), Tail(b))

\* C29: for a ledger sequence, transaction index, operation index and event
\* index that are not negative and in range, the event id is 19 digits, a
\* hyphen and 10 digits; the id of a tuple that is smaller in the
\* lexicographic order of the tuples is smaller as a string, so that
\* different tuples have different ids; the id of all zeros is
\* "0000000000000000000-0000000000".
C29_EventIdsOrdered ==
    last.op = "EncodeEventId" =>
        /\ Len(last.ida) = 30
        /\ last.ida[20] = "-"
        /\ \A i \in (1..30) \ {20} : IsDigitChar(last.ida[i])
        /\ TupleLess(last.a, last.b) => StringLess(last.ida, last.idb)
        /\ last.a # last.b => last.ida # last.idb
        /\ last.a = <<0, 0, 0, 0>> => last.id = "0000000000000000000-0000000000"
        /\ last.id = Join(last.ida)

\* the ids of the events of index 9 and 10 of one operation, and of the
\* last event of a ledger and the first of the next
C29_Witness ==
    /\ last.op = "EncodeEventId"
    /\ last.a = <<1, MaxTxIndex, MaxOpIndex, MaxEventIndex>>
    /\ last.b = <<MaxLedgerSeq, 0, 0, 0>>
    /\ Join(last.ida) = "0000000008589934591-2147483647"
    /\ Join(last.idb) = "9223372032559808512-0000000000"


(***************************************************************************)
(* The errors of the decoder                                               *)
(***************************************************************************)
RecognizedEventTypes == EventTypes \ {"transfer"}

\* an envelope that is not a governance event
NotGovernorEvent(ce) ==
    \/ ce.Type # "contract"
    \/ ce.ContractId = Nil
    \/ ce.V # 0
    \/ Len(ce.Topics) < 2
    \/ ce.Topics[1].arm # "sym"
    \/ ce.Topics[2].arm # "u32"
    \/ ce.Topics[1].val \notin RecognizedEventTypes

\* C30: the decoder reports every failure on an envelope of contract kind
\* with a recognized event type in topic 0 and a u32 proposal id in topic 1
\* as ErrEventParsingFailed, and ApplyLedger logs it.
C30_DecodeFailuresAreParsingErrors ==
    ( /\ last.op = "NewGovernorEventFromContractEvent"
      /\ ~NotGovernorEvent(last.ce)
      /\ ~last.ok )
    => (last.err = ErrEventParsingFailed /\ last.logged)


\* a map with the keys _for, against and abstain, each once and with a
\* 128-bit integer, and no other entry
ExactVoteCount(data) ==
    /\ data.arm = "map"
    /\ Len(data.val) = 3
    /\ \A key \in {"_for", "against", "abstain"} :
           Cardinality({i \in DOMAIN data.val :
                            data.val[i].Key = Sym(key) /\ data.val[i].Val.arm = "i128"}) = 1

\* C31: a proposal_voting_closed envelope with a u32 status and a u32 eta
\* decodes exactly when its data is a map with the three keys _for, against
\* and abstain, each once with a 128-bit integer; every other map is
\* rejected with ErrEventParsingFailed.
C31_VoteCountKeys ==
    ( /\ last.op = "NewGovernorEventFromContractEvent"
      /\ ~NotGovernorEvent(last.ce)
      /\ last.ce.Topics[1].val = "proposal_voting_closed"
      /\ Len(last.ce.Topics) = 4
      /\ last.ce.Topics[3].arm = "u32"
      /\ last.ce.Topics[4].arm = "u32" )
    => /\ last.ok <=> ExactVoteCount(last.ce.Data)
       /\ ~last.ok => last.err = ErrEventParsingFailed


\* C32: for an envelope that is not of contract kind, has no contract
\* address, has a body version other than 0, has fewer than two topics, a
\* topic 0 that is not a symbol, a topic 1 that is not a u32 or an event
\* type that is not one of the six, the decoder returns
\* ErrInvalidEventFormat; ApplyLedger does not log it, does not call
\* ApplyEvent for it and stores no history row for it, and goes on with the
\* next event of the transaction, which is applied.
C32_NonGovernorEventsSkipped ==
    (last.op = "NewGovernorEventFromContractEvent" /\ NotGovernorEvent(last.ce)) =>
        /\ ~last.ok
        /\ last.err = ErrInvalidEventFormat
        /\ ~last.logged
        /\ last.calls = 1
        /\ DOMAIN history = {EncodeEventId(seq, 1, 0, 1)}
        /\ DOMAIN proposals = {EncodeProposalKey("CA", 1)}
        /\ votes = EmptyTable

\* a "transfer" event of the governor contract has been skipped and the
\* proposal_created event after it applied
C32_Witness ==
    /\ last.op = "NewGovernorEventFromContractEvent"
    /\ last.ce.Type = "contract"
    /\ Len(last.ce.Topics) = 3
    /\ last.ce.Topics[1] = Sym("transfer")
    /\ last.err = ErrInvalidEventFormat
    /\ DOMAIN history = {EncodeEventId(seq, 1, 0, 1)}
    /\ DOMAIN proposals = {EncodeProposalKey("CA", 1)}


(***************************************************************************)
(* The life of a Proposal                                                  *)
(***************************************************************************)
\* the three tallies of a proposal row
Tallies(p) == <<p.VotesFor, p.VotesAgainst, p.VotesAbstain>>

\* C33: a Proposal whose status is not Active (0) keeps, in every call of
\* ApplyEvent, whatever the event and whichever store call fails, a status
\* that is not Active and its three tallies.
C33_TalliesFreeze ==
    [][ \A k \in DOMAIN proposals :
            proposals[k].Status # 0 =>
                /\ k \in DOMAIN proposals'
                /\ proposals'[k].Status # 0
                /\ Tallies(proposals'[k]) = Tallies(proposals[k]) ]_vars

\* proposal_voting_closed has been applied to a Proposal whose voting a
\* proposal_voting_closed event had closed before, and has been skipped
C33_Witness ==
    /\ last.op = "ApplyEvent"
    /\ last.type = "proposal_voting_closed"
    /\ last.log = "proposal_voting_closed event for proposal not in active state"
    /\ \E k \in votingClosed :
           /\ proposals[k].Status \in {1, 2}
           /\ proposals[k].VotesFor = <<"3">>

\* C34: a Proposal whose status is Executed (4) is left as it is by every
\* call of ApplyEvent, whatever the event and whichever store call fails:
\* status, tallies, execution_unlock and execution_tx_hash stay.
C34_ExecutedIsTerminal ==
    [][ \A k \in DOMAIN proposals :
            proposals[k].Status = 4 =>
                /\ k \in DOMAIN proposals'
                /\ proposals'[k].Status = 4
                /\ Tallies(proposals'[k]) = Tallies(proposals[k])
                /\ proposals'[k].ExecutionUnlock = proposals[k].ExecutionUnlock
                /\ proposals'[k].ExecutionTxHash = proposals[k].ExecutionTxHash ]_vars

\* proposal_canceled has been applied to an executed Proposal
C34_Witness ==
    /\ last.op = "ApplyEvent"
    /\ last.type = "proposal_canceled"
    /\ last.log = "proposal_canceled event for proposal not in active state"
    /\ \E k \in DOMAIN proposals : proposals[k].Status = 4
    /\ \A k \in DOMAIN proposals : proposals[k].Status \in {4}


\* C35 without its clause on the history: in every reachable store the
\* execution_tx_hash of a Proposal whose status is Executed (4) is the
\* tx_hash of a proposal_executed event for that Proposal.
C35_ExecutedByProposalExecuted ==
    \A k \in DOMAIN proposals :
        proposals[k].Status = 4 =>
            \E e \in EventsOfType("proposal_executed") :
                KeyOf(e) = k /\ e.TxHash = proposals[k].ExecutionTxHash


(***************************************************************************)
(* The rows a call touches                                                 *)
(***************************************************************************)
\* C36: in every reachable store, a call of ApplyEvent for any event,
\* whichever store call fails, leaves every Proposal of another key than
\* the event's and every Vote of another tx_hash than the event's as it is
\* and creates none; a call for an event of another type than vote_cast
\* leaves the votes table as it is.
C36_FrameOfApplyEvent ==
    \A e \in GovernorEvents, fail \in FailPoints :
        \A out \in {ApplyEvent(Store, e, fail)} :
            /\ DOMAIN proposals \subseteq DOMAIN out.proposals
            /\ \A k \in DOMAIN out.proposals \ {KeyOf(e)} :
                   k \in DOMAIN proposals /\ out.proposals[k] = proposals[k]
            /\ DOMAIN votes \subseteq DOMAIN out.votes
            /\ \A tx \in DOMAIN out.votes \ {e.TxHash} :
                   tx \in DOMAIN votes /\ out.votes[tx] = votes[tx]
            /\ e.EventType # "vote_cast" => out.votes = votes

\* two Proposals are stored and a vote_cast event for one of them has just
\* been applied
C36_Witness ==
    /\ Cardinality(DOMAIN proposals) = 2
    /\ Cardinality(DOMAIN votes) = 1
    /\ last.op = "ApplyEvent"
    /\ last.type = "vote_cast"
    /\ last.log = "Event applied successfully"
    /\ \E k \in DOMAIN proposals : Tallies(proposals[k]) = <<<<"0">>, <<"0">>, <<"0">>>>
    /\ \E k \in DOMAIN proposals : Tallies(proposals[k]) # <<<<"0">>, <<"0">>, <<"0">>>>


\* the key of the Proposal a Vote row names
ProposalOf(vote) == EncodeProposalKey(vote.ContractId, vote.ProposalId)

\* C37: starting from the empty store, every stored Vote names a Proposal
\* that is stored, and a call of ApplyEvent that inserts a Vote finds the
\* Proposal the Vote names stored with status Active (0).
C37_VotesReferToProposals ==
    /\ [](\A tx \in DOMAIN votes : ProposalOf(votes[tx]) \in DOMAIN proposals)
    /\ [][ \A tx \in DOMAIN votes' \ DOMAIN votes :
               /\ ProposalOf(votes'[tx]) \in DOMAIN proposals
               /\ proposals[ProposalOf(votes'[tx])].Status = 0 ]_vars

\* a Vote is stored for a Proposal that is no longer Active
C37_Witness ==
    \E tx \in DOMAIN votes :
        /\ ProposalOf(votes[tx]) \in DOMAIN proposals
        /\ proposals[ProposalOf(votes[tx])].Status \in {1, 2, 3, 4, 5}
        /\ Tally(proposals[ProposalOf(votes[tx])], votes[tx].Support) = votes[tx].Amount


(***************************************************************************)
(* The checkpoint over restarts                                            *)
(***************************************************************************)
Checkpointed == GetLedgerSeq(status, "indexer")

\* C38: a write of the checkpoint that succeeds stores a sequence that is
\* at least the one stored before, and no other step (a pass, a write that
\* fails, a start of main) changes the status table.
C38_CheckpointNeverDecreases ==
    /\ [][ (last'.op = "UpsertStatus" /\ last'.ok) =>
               GetLedgerSeq(status', "indexer") >= Checkpointed ]_vars
    /\ [][ status' # status => (last'.op = "UpsertStatus" /\ last'.ok) ]_vars

\* after a restart the checkpoint has been written again with the sequence
\* it had: the start sequence, after two passes
C38_Witness ==
    /\ last.op = "UpsertStatus"
    /\ last.ok
    /\ calls >= 2
    /\ Checkpointed = LedgerBackendStartSeq
    /\ seq = LedgerBackendStartSeq + 1

====
